---- MODULE Spec2Model ----
(***************************************************************************)
(* DiamondPad: the staking tier ledger (StakingTierManager, tiers.ts) and  *)
(* the allocation pools of a launch (AllocationManager, allocation.ts).    *)
(*                                                                         *)
(* Units.  JavaScript numbers are modelled by integers, with the scalings  *)
(* below so that every quantity the code computes stays exact:             *)
(*   - time is counted in hours (a day is HoursPerDay hours), so that the  *)
(*     half days the code can see (a lock that ends later today, a vesting *)
(*     interval of 7.5 days) are representable;                            *)
(*   - a weight (allocationWeight * shsMultiplier) is kept in 1/800:       *)
(*     allocationWeight in 1/4 and the SHS multiplier in 1/200;            *)
(*   - a lottery boost is kept in 1/2, maxAllocationPercent in 1/10;       *)
(*   - the USD amount of a request and maxPerWallet are whole dollars; the *)
(*     token price, and every USD value computed from it, is kept in       *)
(*     1/PriceUnit dollars, so that prices below a dollar are              *)
(*     representable.                                                      *)
(* Math.floor(a / b) is a \div b (TLA+'s \div rounds towards minus         *)
(* infinity, as Math.floor does).  Products and quotients are taken in     *)
(* exact arithmetic: the rounding error of IEEE doubles is not modelled.   *)
(***************************************************************************)
EXTENDS Integers, Sequences, FiniteSets, TLC

VARIABLES
    stakers,      \* StakingTierManager.stakers: wallet -> StakerPosition
    launches,     \* AllocationManager.launches: launchId -> LaunchAllocation
    requests,     \* AllocationManager.requests: launchId -> AllocationRequest[]
    now,          \* the wall clock (Date.now()), in hours
    submitTiers,  \* history: per wallet, the tiers it held at its accepted requests
    executions,   \* history: per launch, the distribution calls that changed it
    probe         \* a single call of a function without state: arguments, result

vars == <<stakers, launches, requests, now, submitTiers, executions, probe>>

(***************************************************************************)
(* Bounds of the model.                                                    *)
(***************************************************************************)
\* requests accepted per launch
MaxRequests == 2
\* pools of a launch that the operator moves out of 'pending'
MaxOpenedPools == 1
\* distribution calls per launch that change the launch
MaxExecutions == 2
\* stake lots (of 50,000 tokens) a wallet holds at most
MaxStakeLots == 1

Wallets == {"w1", "w2"}
LaunchIds == {"L1"}
StakeAmounts == {50000}
StakeLockDays == {0, 180}
UnstakeAmounts == {50000, 150000}
MaxStaked == MaxStakeLots * 50000
TotalTokensOptions == {20}
TokenPrices == {100 * 1000, 25000 * 1000}
RequestAmounts == {300, 30000}

(***************************************************************************)
(* JavaScript helpers.                                                     *)
(***************************************************************************)
Max(a, b) == IF a >= b THEN a ELSE b

Min(a, b) == IF a <= b THEN a ELSE b

\* Array.prototype.indexOf, 0-based, -1 when absent
indexOf(seq, x) ==
    IF \E i \in DOMAIN seq : seq[i] = x
    THEN (CHOOSE i \in DOMAIN seq : seq[i] = x /\ \A j \in 1..(i - 1) : seq[j] # x) - 1
    ELSE -1

\* Map.prototype.set
MapSet(m, k, v) == [x \in DOMAIN m \cup {k} |-> IF x = k THEN v ELSE m[x]]

\* Map.prototype.delete
MapDelete(m, k) == [x \in DOMAIN m \ {k} |-> m[x]]

\* a new Map()
EmptyMap == [x \in {} |-> 0]

(***************************************************************************)
(* tiers.ts: configuration.                                                *)
(***************************************************************************)
HoursPerDay == 24

\* allocationWeight4 = 4 * allocationWeight, lotteryBoost2 = 2 * lotteryBoost,
\* maxAllocationPercent10 = 10 * maxAllocationPercent
TIER_CONFIG ==
    [diamond |-> [minStake |-> 100000, lockDays |-> 180, allocationWeight4 |-> 40,
                  guaranteedAllocation |-> TRUE, lotteryBoost2 |-> 10,
                  maxAllocationPercent10 |-> 50],
     gold    |-> [minStake |-> 50000, lockDays |-> 90, allocationWeight4 |-> 20,
                  guaranteedAllocation |-> TRUE, lotteryBoost2 |-> 6,
                  maxAllocationPercent10 |-> 30],
     silver  |-> [minStake |-> 20000, lockDays |-> 60, allocationWeight4 |-> 10,
                  guaranteedAllocation |-> FALSE, lotteryBoost2 |-> 4,
                  maxAllocationPercent10 |-> 20],
     bronze  |-> [minStake |-> 5000, lockDays |-> 30, allocationWeight4 |-> 4,
                  guaranteedAllocation |-> FALSE, lotteryBoost2 |-> 3,
                  maxAllocationPercent10 |-> 10],
     public  |-> [minStake |-> 0, lockDays |-> 0, allocationWeight4 |-> 1,
                  guaranteedAllocation |-> FALSE, lotteryBoost2 |-> 2,
                  maxAllocationPercent10 |-> 5]]

StakingTier == DOMAIN TIER_CONFIG

\* EARLY_UNSTAKE_PENALTY = 0.1, as a percentage
EARLY_UNSTAKE_PENALTY == 10

(***************************************************************************)
(* tiers.ts: StakingTierManager.                                           *)
(***************************************************************************)
\* A variant of getTierForStake that tests the lock of a tier only.
getTierForLock(amount, lockDays) ==
    IF lockDays >= TIER_CONFIG.diamond.lockDays THEN "diamond"
    ELSE IF lockDays >= TIER_CONFIG.gold.lockDays THEN "gold"
    ELSE IF lockDays >= TIER_CONFIG.silver.lockDays THEN "silver"
    ELSE IF lockDays >= TIER_CONFIG.bronze.lockDays THEN "bronze"
    ELSE "public"

getTierForStake(amount, lockDays) ==
    IF amount >= TIER_CONFIG.diamond.minStake /\ lockDays >= TIER_CONFIG.diamond.lockDays
    THEN "diamond"
    ELSE IF amount >= TIER_CONFIG.gold.minStake /\ lockDays >= TIER_CONFIG.gold.lockDays
    THEN "gold"
    ELSE IF amount >= TIER_CONFIG.silver.minStake /\ lockDays >= TIER_CONFIG.silver.lockDays
    THEN "silver"
    ELSE IF amount >= TIER_CONFIG.bronze.minStake /\ lockDays >= TIER_CONFIG.bronze.lockDays
    THEN "bronze"
    ELSE "public"

\* A variant of the normalisation of line 187 that returns the score as it is.
scoreAsItIs(score, unit) == score

\* Math.max(0, Math.min(100, score)) for a score counted in 1/unit
normalizeScore(score, unit) == Max(0, Min(100 * unit, score))

\* calculateSHS(history): the score as a fraction score / unit, with
\* unit = 9 * max(launchesParticipated, 1), in which every term is whole:
\* min(holdDuration / 90, 1) * 40 is min(holdDuration, 90) * 4 / 9, and the two
\* ratios have the denominator max(launchesParticipated, 1)
calculateSHS(history) ==
    LET launches1 == Max(history.launchesParticipated, 1)
        unit == 9 * launches1
        base == 50 * unit
        holdFactor == Min(history.holdDuration, 90) * 4 * launches1
        loyalty == history.launchesHeldLong * 20 * 9
        flipPenalty == history.quickFlips * 30 * 9
        lpBonus == IF history.lpProvided THEN 10 * unit ELSE 0
        votes == Min(history.governanceVotes, 5) * unit
    IN  [score |-> normalizeScore(base + holdFactor + loyalty - flipPenalty
                                    + lpBonus + votes, unit),
         unit |-> unit]

\* 0.5 + (shs / 100) * (2.0 - 0.5), in 1/200
shsToMultiplier(shs) == 100 + 3 * shs

\* allocationWeight * shsMultiplier, in 1/800
getEffectiveWeight(tier, shs) == TIER_CONFIG[tier].allocationWeight4 * shsToMultiplier(shs)

\* A variant of the lock of line 230 that is what is left of the position's lock.
lockLeftOnPosition(lockDays, lockEndDate, t) ==
    Max(lockDays, Max(0, (lockEndDate - t) \div HoursPerDay))

\* request.lockDays, the lock getTierForStake is given for an existing position
lockOfRequest(lockDays, lockEndDate, t) == lockDays

\* A variant of line 223 in which the call writes its own amount over the
\* staked amount it found.
stakeWrittenOver(stakedAmount, amount) == amount

\* position.stakedAmount += request.amount
stakeAddedTo(stakedAmount, amount) == stakedAmount + amount

\* The position stake() leaves for request.wallet.  stakedAt and the three
\* allocation statistics of a StakerPosition are written once and never read.
stakePosition(stk, t, wallet, amount, lockDays) ==
    LET tier == getTierForStake(amount, lockDays)
        lockTo == t + lockDays * HoursPerDay
        position ==
            IF wallet \in DOMAIN stk
            THEN [stk[wallet] EXCEPT
                    !.stakedAmount = stakeAddedTo(@, amount),
                    !.lockEndDate = Max(@, lockTo),
                    !.tier = getTierForStake(stakeAddedTo(stk[wallet].stakedAmount, amount),
                                             lockOfRequest(lockDays,
                                                           stk[wallet].lockEndDate, t))]
            ELSE [stakedAmount |-> amount,
                  lockEndDate |-> lockTo,
                  tier |-> tier,
                  strongHolderScore |-> 50,
                  effectiveWeight |-> getEffectiveWeight(tier, 50)]
    IN  [position EXCEPT
            !.effectiveWeight = getEffectiveWeight(position.tier, position.strongHolderScore)]

\* How a call completes: outcome is "returned" or "thrown", success is the
\* success flag of a returned result.
Completed(op, outcome, success, error, amountReturned, penaltyApplied) ==
    [op |-> op, outcome |-> outcome, success |-> success, error |-> error,
     amountReturned |-> amountReturned, penaltyApplied |-> penaltyApplied]

Returned(op) == Completed(op, "returned", TRUE, "", 0, 0)

Failure(op, error) == Completed(op, "returned", FALSE, error, 0, 0)

Thrown(op, error) == Completed(op, "thrown", FALSE, error, 0, 0)

\* A variant of the remaining lock of lines 295-298 that counts the days
\* from day 0.
lockDaysFromStart(lockEndDate, t) == Max(0, lockEndDate \div HoursPerDay)

\* Math.max(0, Math.floor((lockEndDate - Date.now()) / one day))
remainingLockDaysAt(lockEndDate, t) == Max(0, (lockEndDate - t) \div HoursPerDay)

\* A variant of the condition of line 277 that does not look at the lock.
penaltyWhenEarly(early, lockEndDate, t) == early

\* request.early && position.lockEndDate > new Date()
penaltyApplies(early, lockEndDate, t) == early /\ lockEndDate > t

\* unstake(): the ledger it leaves and how it completes
unstake(stk, t, wallet, amount, early) ==
    IF wallet \notin DOMAIN stk
    THEN [stakers |-> stk, ret |-> Thrown("unstake", "No staking position found")]
    ELSE IF amount > stk[wallet].stakedAmount
    THEN [stakers |-> stk, ret |-> Thrown("unstake", "Insufficient staked balance")]
    ELSE
        LET position == stk[wallet]
            penalty == IF penaltyApplies(early, position.lockEndDate, t)
                       THEN (amount * EARLY_UNSTAKE_PENALTY) \div 100
                       ELSE 0
            amountReturned == amount - penalty
            left == position.stakedAmount - amount
            remainingLockDays == remainingLockDaysAt(position.lockEndDate, t)
            tier == getTierForStake(left, remainingLockDays)
        IN  IF left <= 0
            THEN [stakers |-> MapDelete(stk, wallet),
                  ret |-> Completed("unstake", "returned", TRUE, "", amountReturned, penalty)]
            ELSE [stakers |->
                    MapSet(stk, wallet,
                           [position EXCEPT
                               !.stakedAmount = left,
                               !.tier = tier,
                               !.effectiveWeight =
                                   getEffectiveWeight(tier, position.strongHolderScore)]),
                  ret |-> Completed("unstake", "returned", TRUE, "", amountReturned, penalty)]

\* A variant of updateSHS without the assignment of line 356: the score is
\* stored and the weight is left as it was.
updateSHSKeepingWeight(stk, wallet, newSHS) ==
    IF wallet \in DOMAIN stk
    THEN MapSet(stk, wallet, [stk[wallet] EXCEPT !.strongHolderScore = newSHS])
    ELSE stk

\* newPosition of what unstake() returns: the position it stored, null when it
\* deleted the position
newPositionOf(result, wallet) ==
    IF wallet \in DOMAIN result.stakers THEN result.stakers[wallet] ELSE "null"

\* updateSHS(): the ledger it leaves
updateSHS(stk, wallet, newSHS) ==
    IF wallet \in DOMAIN stk
    THEN MapSet(stk, wallet,
                [stk[wallet] EXCEPT
                    !.strongHolderScore = newSHS,
                    !.effectiveWeight = getEffectiveWeight(stk[wallet].tier, newSHS)])
    ELSE stk

\* getLotteryBoost(), in 1/400 (lotteryBoost in 1/2 times the multiplier in 1/200)
getLotteryBoost(stk, wallet) ==
    IF wallet \notin DOMAIN stk
    THEN TIER_CONFIG.public.lotteryBoost2 * 200
    ELSE TIER_CONFIG[stk[wallet].tier].lotteryBoost2
             * shsToMultiplier(stk[wallet].strongHolderScore)

(***************************************************************************)
(* allocation.ts: configuration.                                           *)
(***************************************************************************)
\* the keys of POOL_CONFIG, in the order Object.entries lists them
AllocationPool ==
    <<"guaranteed", "weighted_lottery", "public_lottery", "fcfs", "flipper",
      "liquidity", "trader_rewards">>

Pools == {AllocationPool[i] : i \in DOMAIN AllocationPool}

POOL_CONFIG ==
    [guaranteed       |-> [percent |-> 30, requiresStaking |-> TRUE, minTier |-> "gold",
                           maxPerWallet |-> 25000, mechanism |-> "prorata"],
     weighted_lottery |-> [percent |-> 25, requiresStaking |-> TRUE, minTier |-> "bronze",
                           maxPerWallet |-> 5000, mechanism |-> "lottery"],
     public_lottery   |-> [percent |-> 10, requiresStaking |-> FALSE, minTier |-> "null",
                           maxPerWallet |-> 500, mechanism |-> "lottery"],
     fcfs             |-> [percent |-> 5, requiresStaking |-> FALSE, minTier |-> "null",
                           maxPerWallet |-> 100, mechanism |-> "fcfs"],
     flipper          |-> [percent |-> 5, requiresStaking |-> FALSE, minTier |-> "null",
                           maxPerWallet |-> 200, mechanism |-> "lottery"],
     liquidity        |-> [percent |-> 15, requiresStaking |-> FALSE, minTier |-> "null",
                           maxPerWallet |-> 0, mechanism |-> "auto"],
     trader_rewards   |-> [percent |-> 10, requiresStaking |-> FALSE, minTier |-> "null",
                           maxPerWallet |-> 0, mechanism |-> "auto"]]

\* the pools executeAllPools runs executeLotteryPool on, in its order
LotteryPools == <<"weighted_lottery", "public_lottery", "flipper">>

\* the pools that have a distribution operation
ParticipantPools == {"guaranteed", "weighted_lottery", "public_lottery", "flipper", "fcfs"}

\* maxUSD: Infinity
Infinity == 2147483647

\* LaunchAllocation.tokenPrice and the USD values derived from it count
\* 1/PriceUnit dollars
PriceUnit == 1000

\* Math.floor(usd / tokenPrice) for a whole-dollar amount usd
tokensFor(usd, tokenPrice) == (usd * PriceUnit) \div tokenPrice

VESTING_TIERS ==
    <<[maxUSD |-> 500, cliffDays |-> 0, vestingDays |-> 0, tgePercent |-> 100],
      [maxUSD |-> 2000, cliffDays |-> 0, vestingDays |-> 30, tgePercent |-> 50],
      [maxUSD |-> 10000, cliffDays |-> 7, vestingDays |-> 60, tgePercent |-> 25],
      [maxUSD |-> Infinity, cliffDays |-> 14, vestingDays |-> 90, tgePercent |-> 20]>>

\* vestingSchedule: null
NullSchedule == [totalTokens |-> -1]

(***************************************************************************)
(* allocation.ts: AllocationManager.                                       *)
(***************************************************************************)
\* A variant of the tranche amount of line 498 that gives the last tranche
\* what the others get.
equalTranche(i, vestingAmount, vestingReleases) == vestingAmount \div vestingReleases

\* i === vestingReleases - 1 ? vestingAmount - (releaseAmount * (vestingReleases - 1))
\* : releaseAmount, for the tranches 1..vestingReleases
trancheAmount(i, vestingAmount, vestingReleases) ==
    LET releaseAmount == vestingAmount \div vestingReleases
    IN  IF i = vestingReleases
        THEN vestingAmount - releaseAmount * (vestingReleases - 1)
        ELSE releaseAmount

\* A variant of the selection of line 459 that takes the last row that fits.
vestingTierLastFit(amountUSD) == VESTING_TIERS[Len(VESTING_TIERS)]

\* VESTING_TIERS.find(t => amountUSD <= t.maxUSD) || VESTING_TIERS[length - 1];
\* amountUSD in 1/PriceUnit dollars
vestingTierFor(amountUSD) ==
    LET found == {i \in DOMAIN VESTING_TIERS :
                    \/ VESTING_TIERS[i].maxUSD = Infinity
                    \/ amountUSD <= VESTING_TIERS[i].maxUSD * PriceUnit}
    IN  IF found # {}
        THEN VESTING_TIERS[CHOOSE i \in found : \A j \in found : i <= j]
        ELSE VESTING_TIERS[Len(VESTING_TIERS)]

\* createVestingSchedule(amountUSD, tokens) called at time t; amountUSD in
\* 1/PriceUnit dollars
createVestingSchedule(amountUSD, tokens, t) ==
    LET tier == vestingTierFor(amountUSD)
        tgeAmount == (tokens * tier.tgePercent) \div 100
        vestingAmount == tokens - tgeAmount
        vestingReleases == 4
        \* releaseInterval = vestingDays / 4 days, in hours
        releaseInterval == (tier.vestingDays * HoursPerDay) \div vestingReleases
    IN  IF tier.vestingDays = 0
        THEN [totalTokens |-> tokens, releasedTokens |-> tokens,
              cliffDays |-> 0, vestingDays |-> 0, startDate |-> t,
              releases |-> <<[date |-> t, amount |-> tokens, released |-> TRUE]>>]
        ELSE [totalTokens |-> tokens, releasedTokens |-> 0,
              cliffDays |-> tier.cliffDays, vestingDays |-> tier.vestingDays,
              startDate |-> t,
              releases |->
                <<[date |-> t, amount |-> tgeAmount, released |-> FALSE]>> \o
                [i \in 1..vestingReleases |->
                    [date |-> t + tier.cliffDays * HoursPerDay + releaseInterval * i,
                     amount |-> trancheAmount(i, vestingAmount, vestingReleases),
                     released |-> FALSE]]]

\* A variant of the pool size of line 190 that rounds up.
poolTokensRoundedUp(totalTokens, percent) == (totalTokens * percent + 99) \div 100

\* Math.floor(totalTokens * (config.percent / 100))
poolTokensOf(totalTokens, percent) == (totalTokens * percent) \div 100

\* initializeLaunch(): the LaunchAllocation it stores (launchId is the map's key;
\* oversubscribed and oversubscriptionRatio are written here and nowhere read)
initializeLaunch(totalTokens, tokenPrice) ==
    [totalTokens |-> totalTokens,
     tokenPrice |-> tokenPrice,
     participantCount |-> 0,
     pools |->
        [p \in Pools |->
            LET poolTokens == poolTokensOf(totalTokens, POOL_CONFIG[p].percent)
            IN  [pool |-> p,
                 totalTokens |-> poolTokens,
                 totalValueUSD |-> poolTokens * tokenPrice,
                 allocated |-> 0,
                 remaining |-> poolTokens,
                 participants |-> <<>>,
                 status |-> "pending"]]]

\* A variant of the check of line 234 that turns away distributed pools only.
PoolNotDistributed(pool) == pool.status # "distributed"

\* the check of line 234: does the pool take requests
PoolAcceptsRequests(pool) == pool.status = "open"

\* A variant of validateRequest() that asks for a position and not for its tier.
validateRequestAnyPosition(stk, wallet, poolConfig) ==
    IF poolConfig.requiresStaking /\ wallet \notin DOMAIN stk
    THEN [valid |-> FALSE, error |-> "Staking required for this pool"]
    ELSE [valid |-> TRUE, error |-> ""]

\* validateRequest()
validateRequest(stk, wallet, poolConfig) ==
    IF poolConfig.requiresStaking
    THEN IF wallet \notin DOMAIN stk
         THEN [valid |-> FALSE, error |-> "Staking required for this pool"]
         ELSE IF poolConfig.minTier # "null"
                 /\ indexOf(<<"public", "bronze", "silver", "gold", "diamond">>,
                            stk[wallet].tier)
                    < indexOf(<<"public", "bronze", "silver", "gold", "diamond">>,
                              poolConfig.minTier)
         THEN [valid |-> FALSE, error |-> "Minimum tier required"]
         ELSE [valid |-> TRUE, error |-> ""]
    ELSE [valid |-> TRUE, error |-> ""]

\* request.amountUSD after the clamp of lines 245-247
clampAmount(pool, amountUSD) ==
    IF amountUSD > POOL_CONFIG[pool].maxPerWallet
    THEN POOL_CONFIG[pool].maxPerWallet
    ELSE amountUSD

\* the AllocationEntry submitRequest() builds (lines 249-264)
newEntry(stk, wallet, pool, amountUSD) ==
    [wallet |-> wallet,
     pool |-> pool,
     requestedAmount |-> clampAmount(pool, amountUSD),
     allocatedTokens |-> 0,
     allocatedValueUSD |-> 0,
     \* position?.effectiveWeight || TIER_CONFIG.public.allocationWeight
     weight |-> IF wallet \in DOMAIN stk /\ stk[wallet].effectiveWeight # 0
                THEN stk[wallet].effectiveWeight
                ELSE TIER_CONFIG.public.allocationWeight4 * 200,
     lotteryTickets |->
        (clampAmount(pool, amountUSD) * getLotteryBoost(stk, wallet)) \div 400,
     vestingSchedule |-> NullSchedule,
     status |-> "pending"]

\* the request log of a launch with the (clamped) request pushed (lines 268-270)
pushRequest(reqs, wallet, launchId, pool, amountUSD) ==
    MapSet(reqs, launchId,
           Append(IF launchId \in DOMAIN reqs THEN reqs[launchId] ELSE <<>>,
                  [wallet |-> wallet, pool |-> pool,
                   amountUSD |-> clampAmount(pool, amountUSD)]))

\* A variant of submitRequest() that pushes the request on the log before it
\* validates the wallet.
submitRequestLogsFirst(stk, lch, reqs, wallet, launchId, pool, amountUSD) ==
    IF launchId \notin DOMAIN lch
    THEN [launches |-> lch, requests |-> reqs,
          ret |-> Failure("submitRequest", "Launch not found")]
    ELSE IF lch[launchId].pools[pool].status # "open"
    THEN [launches |-> lch, requests |-> reqs,
          ret |-> Failure("submitRequest", "Pool not open for requests")]
    ELSE IF ~validateRequest(stk, wallet, POOL_CONFIG[pool]).valid
    THEN [launches |-> lch,
          requests |-> pushRequest(reqs, wallet, launchId, pool, amountUSD),
          ret |-> Failure("submitRequest",
                          validateRequest(stk, wallet, POOL_CONFIG[pool]).error)]
    ELSE [launches |->
            [lch EXCEPT ![launchId].pools[pool].participants =
                            Append(@, newEntry(stk, wallet, pool, amountUSD))],
          requests |-> pushRequest(reqs, wallet, launchId, pool, amountUSD),
          ret |-> Returned("submitRequest")]

\* submitRequest(): the launches and the request log it leaves, and its result
submitRequest(stk, lch, reqs, wallet, launchId, pool, amountUSD) ==
    IF launchId \notin DOMAIN lch
    THEN [launches |-> lch, requests |-> reqs,
          ret |-> Failure("submitRequest", "Launch not found")]
    ELSE IF ~PoolAcceptsRequests(lch[launchId].pools[pool])
    THEN [launches |-> lch, requests |-> reqs,
          ret |-> Failure("submitRequest", "Pool not open for requests")]
    ELSE IF ~validateRequest(stk, wallet, POOL_CONFIG[pool]).valid
    THEN [launches |-> lch, requests |-> reqs,
          ret |-> Failure("submitRequest",
                          validateRequest(stk, wallet, POOL_CONFIG[pool]).error)]
    ELSE [launches |->
            [lch EXCEPT ![launchId].pools[pool].participants =
                            Append(@, newEntry(stk, wallet, pool, amountUSD))],
          requests |-> pushRequest(reqs, wallet, launchId, pool, amountUSD),
          ret |-> Returned("submitRequest")]

\* Array.prototype.reduce((sum, x) => sum + x, 0) over a sequence of numbers
RECURSIVE SumSeq(_)
SumSeq(seq) == IF seq = <<>> THEN 0 ELSE Head(seq) + SumSeq(Tail(seq))

\* participants.find(p => p.wallet === wallet): the index of the first entry of
\* the wallet, 0 when it has none
findEntry(participants, wallet) ==
    IF \E i \in DOMAIN participants : participants[i].wallet = wallet
    THEN CHOOSE i \in DOMAIN participants :
            /\ participants[i].wallet = wallet
            /\ \A j \in 1..(i - 1) : participants[j].wallet # wallet
    ELSE 0

\* A variant of the pro-rata share that hands every participant the whole pool.
wholePoolShare(poolTokens, weight, totalWeight) == poolTokens

\* A variant of the pro-rata share that rounds up.
shareRoundedUp(poolTokens, weight, totalWeight) ==
    (poolTokens \div totalWeight) * weight
        + ((poolTokens % totalWeight) * weight + totalWeight - 1) \div totalWeight

\* Math.floor(pool.totalTokens * (weight / totalWeight)) of lines 322-323, as
\* floor(poolTokens * weight / totalWeight); the quotient of poolTokens by
\* totalWeight is taken out first, which keeps the products small
proRataShare(poolTokens, weight, totalWeight) ==
    (poolTokens \div totalWeight) * weight
        + ((poolTokens % totalWeight) * weight) \div totalWeight

\* executeGuaranteedPool() on a launch that exists, at time t
executeGuaranteedPool(launch, t) ==
    LET pool == launch.pools.guaranteed
        parts == pool.participants
        totalWeight == SumSeq([i \in DOMAIN parts |-> parts[i].weight])
        finalTokens(p) ==
            Min(proRataShare(pool.totalTokens, p.weight, totalWeight),
                tokensFor(p.requestedAmount, launch.tokenPrice))
        filled(p) ==
            [p EXCEPT
                !.allocatedTokens = finalTokens(p),
                !.allocatedValueUSD = finalTokens(p) * launch.tokenPrice,
                !.status = "filled",
                !.vestingSchedule =
                    createVestingSchedule(finalTokens(p) * launch.tokenPrice,
                                          finalTokens(p), t)]
        allocated ==
            pool.allocated + SumSeq([i \in DOMAIN parts |-> finalTokens(parts[i])])
    IN  IF Len(parts) = 0
        THEN launch
        ELSE [launch EXCEPT
                !.pools.guaranteed =
                    [pool EXCEPT
                        !.participants = [i \in DOMAIN parts |-> filled(parts[i])],
                        !.allocated = allocated,
                        !.remaining = pool.totalTokens - allocated,
                        !.status = "distributed"]]

\* The orders in which the wallets of a set can first come up.
DrawOrders(S) ==
    {o \in [1..Cardinality(S) -> S] : \A i, j \in DOMAIN o : i # j => o[i] # o[j]}

\* A variant of the ticket loop of lines 360-364 that pushes one ticket fewer
\* for every entry.
ticketHoldersButOne(participants) ==
    {participants[i].wallet :
        i \in {j \in DOMAIN participants : participants[j].lotteryTickets > 1}}

\* The wallets that hold a ticket: one ticket per unit of lotteryTickets, none
\* for a count of zero or less.
ticketHolders(participants) ==
    {participants[i].wallet :
        i \in {j \in DOMAIN participants : participants[j].lotteryTickets > 0}}

\* A variant of the award of line 383 that does not look at what is left of
\* the pool.
lotteryAwardIgnoringPool(maxTokens, requestedTokens, remainingTokens) ==
    Min(maxTokens, requestedTokens)

\* Math.min(maxTokens, requestedTokens, remainingTokens) of line 383
lotteryAward(maxTokens, requestedTokens, remainingTokens) ==
    Min(Min(maxTokens, requestedTokens), remainingTokens)

\* The drawing loop of executeLotteryPool (lines 374-396) over the wallets in the
\* order their first tickets come up; st holds the participants, the pool's
\* allocated counter and remainingTokens.
RECURSIVE drawWinners(_, _, _, _, _)
drawWinners(st, order, maxTokens, tokenPrice, t) ==
    IF order = <<>> \/ st.remainingTokens <= 0
    THEN st
    ELSE
        LET i == findEntry(st.participants, Head(order))
            participant == st.participants[i]
            requestedTokens == tokensFor(participant.requestedAmount, tokenPrice)
            allocatedTokens == lotteryAward(maxTokens, requestedTokens, st.remainingTokens)
        IN  drawWinners(
                [participants |->
                    [st.participants EXCEPT
                        ![i] = [participant EXCEPT
                                  !.allocatedTokens = allocatedTokens,
                                  !.allocatedValueUSD = allocatedTokens * tokenPrice,
                                  !.status = "won",
                                  !.vestingSchedule =
                                      createVestingSchedule(allocatedTokens * tokenPrice,
                                                            allocatedTokens, t)]],
                 allocated |-> st.allocated + allocatedTokens,
                 remainingTokens |-> st.remainingTokens - allocatedTokens],
                Tail(order), maxTokens, tokenPrice, t)

\* A variant of the marking of lines 398-403 that makes every 'pending' entry
\* a winner.
markWon(participants) ==
    [i \in DOMAIN participants |->
        IF participants[i].status = "pending"
        THEN [participants[i] EXCEPT !.status = "won"]
        ELSE participants[i]]

\* A variant of the marking of lines 398-403 and 444-449 that leaves the
\* entries as the loop left them.
markNothing(participants) == participants

\* 'pending' entries become 'lost' (lines 398-403 and 444-449)
markLost(participants) ==
    [i \in DOMAIN participants |->
        IF participants[i].status = "pending"
        THEN [participants[i] EXCEPT !.status = "lost"]
        ELSE participants[i]]

\* executeLotteryPool() on a launch that exists, at time t, when the shuffled
\* tickets bring the wallets up in the given order.  The Fisher-Yates shuffle
\* can produce every permutation of the tickets; the loop skips a wallet that
\* has won, so its result depends on the order of the wallets' first tickets
\* alone.
lotteryDraw(launch, pool, order, t) ==
    LET poolData == launch.pools[pool]
        drawn == drawWinners([participants |-> poolData.participants,
                              allocated |-> poolData.allocated,
                              remainingTokens |-> poolData.totalTokens],
                             order,
                             tokensFor(POOL_CONFIG[pool].maxPerWallet, launch.tokenPrice),
                             launch.tokenPrice, t)
    IN  [launch EXCEPT
            !.pools[pool] =
                [poolData EXCEPT
                    !.participants = markLost(drawn.participants),
                    !.allocated = drawn.allocated,
                    !.remaining = drawn.remainingTokens,
                    !.status = "distributed"]]

\* executeLotteryPool(): the launches it can leave
executeLotteryPool(launch, pool, t) ==
    IF Len(launch.pools[pool].participants) = 0
    THEN {launch}
    ELSE {lotteryDraw(launch, pool, order, t) :
            order \in DrawOrders(ticketHolders(launch.pools[pool].participants))}

\* The serving loop of executeFCFSPool (lines 427-442) over the fcfs requests
RECURSIVE serveRequests(_, _, _, _)
serveRequests(st, fcfsRequests, maxTokens, tokenPrice) ==
    IF fcfsRequests = <<>> \/ st.remainingTokens <= 0
    THEN st
    ELSE
        LET i == findEntry(st.participants, Head(fcfsRequests).wallet)
            allocatedTokens == Min(maxTokens, st.remainingTokens)
        IN  IF i = 0
            THEN serveRequests(st, Tail(fcfsRequests), maxTokens, tokenPrice)
            ELSE serveRequests(
                    [participants |->
                        [st.participants EXCEPT
                            ![i] = [@ EXCEPT
                                      !.allocatedTokens = allocatedTokens,
                                      !.allocatedValueUSD = allocatedTokens * tokenPrice,
                                      !.status = "filled"]],
                     allocated |-> st.allocated + allocatedTokens,
                     remainingTokens |-> st.remainingTokens - allocatedTokens],
                    Tail(fcfsRequests), maxTokens, tokenPrice)

\* r => r.pool === 'fcfs'
IsFcfsRequest(r) == r.pool = "fcfs"

\* requests.filter(r => r.pool === 'fcfs').sort((a, b) => 0): the comparator
\* returns 0, so the (stable) sort keeps the order of the log.
fcfsRequestsOf(log) == SelectSeq(log, IsFcfsRequest)

\* executeFCFSPool() on a launch that exists, with the launch's request log.
\* The comparator of the sort returns 0, so the (stable) sort keeps the log's
\* order.
executeFCFSPool(launch, log) ==
    LET pool == launch.pools.fcfs
        served == serveRequests([participants |-> pool.participants,
                                 allocated |-> pool.allocated,
                                 remainingTokens |-> pool.totalTokens],
                                fcfsRequestsOf(log),
                                tokensFor(POOL_CONFIG.fcfs.maxPerWallet, launch.tokenPrice),
                                launch.tokenPrice)
    IN  [launch EXCEPT
            !.pools.fcfs =
                [pool EXCEPT
                    !.participants = markLost(served.participants),
                    !.allocated = served.allocated,
                    !.remaining = served.remainingTokens,
                    !.status = "distributed"]]

\* entries with status 'filled' or 'won'
awarded(participants) ==
    {i \in DOMAIN participants : participants[i].status \in {"filled", "won"}}

\* the participantCount executeAllPools stores
countParticipants(launch) ==
    SumSeq([k \in DOMAIN AllocationPool |->
                Cardinality(awarded(launch.pools[AllocationPool[k]].participants))])

\* executeAllPools() on a launch that exists: the launches it can leave
executeAllPools(launch, log, t) ==
    {[done EXCEPT !.participantCount = countParticipants(done)] :
        done \in
            {executeFCFSPool(l3, log) :
                l3 \in UNION {executeLotteryPool(l2, LotteryPools[3], t) :
                    l2 \in UNION {executeLotteryPool(l1, LotteryPools[2], t) :
                        l1 \in executeLotteryPool(executeGuaranteedPool(launch, t),
                                                  LotteryPools[1], t)}}}}

\* getUserAllocation(): what it returns; the pools are visited in the order of
\* Object.values(launch.pools), and in each the entry is the first of the wallet
getUserAllocation(lch, launchId, wallet) ==
    IF launchId \notin DOMAIN lch
    THEN [totalTokens |-> 0, totalValueUSD |-> 0, allocations |-> <<>>]
    ELSE
        LET launch == lch[launchId]
            isAwarded(p) ==
                LET i == findEntry(launch.pools[p].participants, wallet)
                IN  /\ i # 0
                    /\ launch.pools[p].participants[i].status \in {"filled", "won"}
            awardedPools == SelectSeq(AllocationPool, isAwarded)
            allocations ==
                [n \in DOMAIN awardedPools |->
                    launch.pools[awardedPools[n]].participants[
                        findEntry(launch.pools[awardedPools[n]].participants, wallet)]]
        IN  [totalTokens |->
                SumSeq([n \in DOMAIN allocations |-> allocations[n].allocatedTokens]),
             totalValueUSD |->
                SumSeq([n \in DOMAIN allocations |-> allocations[n].allocatedValueUSD]),
             allocations |-> allocations]

\* openPool() / closePool(): the launches map with the pool's status set
setPoolStatus(lch, launchId, pool, status) ==
    IF launchId \in DOMAIN lch
    THEN [lch EXCEPT ![launchId].pools[pool].status = status]
    ELSE lch

(***************************************************************************)
(* The operations, one action each.                                        *)
(***************************************************************************)
\* the tier a wallet holds: its position's tier, public without a position
heldTier(stk, wallet) == IF wallet \in DOMAIN stk THEN stk[wallet].tier ELSE "public"

\* pools of a launch that have left 'pending'
openedPools(launch) == {p \in Pools : launch.pools[p].status # "pending"}

\* the bound on running distribution again
MayExecute(l) == executions[l] < MaxExecutions

\* the count of the distribution calls that changed launch l
Executed(l) ==
    executions' = IF launches' # launches
                  THEN [executions EXCEPT ![l] = @ + 1]
                  ELSE executions

\* no call under observation
NoProbe == [fn |-> "none"]

Init ==
    /\ probe = NoProbe
    /\ stakers = EmptyMap
    /\ launches = EmptyMap
    /\ requests = EmptyMap
    /\ now = 0
    /\ submitTiers = [w \in Wallets |-> {}]
    /\ executions = [l \in LaunchIds |-> 0]

\* stake() while the wallet holds no more than `limit` tokens after it
StakeWithin(limit, w, amount, lockDays) ==
    /\ (IF w \in DOMAIN stakers THEN stakers[w].stakedAmount ELSE 0) + amount <= limit
    /\ stakers' = MapSet(stakers, w, stakePosition(stakers, now, w, amount, lockDays))
    /\ UNCHANGED <<probe, launches, requests, now, submitTiers, executions>>

Stake(w, amount, lockDays) == StakeWithin(MaxStaked, w, amount, lockDays)

Unstake(w, amount, early) ==
    /\ stakers' = unstake(stakers, now, w, amount, early).stakers
    /\ UNCHANGED <<probe, launches, requests, now, submitTiers, executions>>

\* A variant of updateSHS() in which the entries of the wallet are views of its
\* position: the new weight shows in every entry the wallet has.
UpdateSHSThroughEntries(w, newSHS) ==
    /\ stakers' = updateSHS(stakers, w, newSHS)
    /\ launches' =
        [l \in DOMAIN launches |->
            [launches[l] EXCEPT
                !.pools = [p \in Pools |->
                    [launches[l].pools[p] EXCEPT
                        !.participants =
                            [i \in DOMAIN launches[l].pools[p].participants |->
                                IF /\ launches[l].pools[p].participants[i].wallet = w
                                   /\ w \in DOMAIN stakers
                                THEN [launches[l].pools[p].participants[i] EXCEPT
                                        !.weight = stakers'[w].effectiveWeight]
                                ELSE launches[l].pools[p].participants[i]]]]]]
    /\ UNCHANGED <<probe, requests, now, submitTiers, executions>>

\* updateSHS is called after a launch completes; Next leaves it out, so every
\* position of Spec keeps the score 50 it is created with
UpdateSHS(w, newSHS) ==
    /\ stakers' = updateSHS(stakers, w, newSHS)
    /\ UNCHANGED <<probe, launches, requests, now, submitTiers, executions>>

\* Date.now() moves on by the given number of days, up to the day maxDays
Tick(days, maxDays) ==
    /\ now + days * HoursPerDay <= maxDays * HoursPerDay
    /\ now' = now + days * HoursPerDay
    /\ UNCHANGED <<probe, stakers, launches, requests, submitTiers, executions>>

InitializeLaunch(l, totalTokens, tokenPrice) ==
    /\ launches' = MapSet(launches, l, initializeLaunch(totalTokens, tokenPrice))
    /\ requests' = MapSet(requests, l, <<>>)
    /\ submitTiers' = [w \in Wallets |-> {}]
    /\ executions' = [executions EXCEPT ![l] = 0]
    /\ UNCHANGED <<probe, stakers, now>>

\* A variant of submitRequest() that is not one step: the check of line 234
\* is made while the pool is open, closePool() completes, and the rest of
\* submitRequest() runs on the closed pool.
SubmitRequestAcrossClose(limit, w, l, p, amountUSD) ==
    LET closed == l \in DOMAIN launches /\ launches[l].pools[p].status = "closed"
        checked == IF closed THEN setPoolStatus(launches, l, p, "open") ELSE launches
        result == submitRequest(stakers, checked, requests, w, l, p, amountUSD)
    IN  /\ l \in DOMAIN requests => Len(requests[l]) < limit
        /\ launches' = IF closed
                       THEN setPoolStatus(result.launches, l, p, "closed")
                       ELSE result.launches
        /\ requests' = result.requests
        /\ submitTiers' =
            IF result.ret.success
            THEN [submitTiers EXCEPT ![w] = @ \cup {heldTier(stakers, w)}]
            ELSE submitTiers
        /\ UNCHANGED <<probe, stakers, now, executions>>

\* submitRequest() while the launch has fewer than `limit` accepted requests
SubmitRequestWithin(limit, w, l, p, amountUSD) ==
    /\ l \in DOMAIN requests => Len(requests[l]) < limit
    /\ launches' = submitRequest(stakers, launches, requests, w, l, p, amountUSD).launches
    /\ requests' = submitRequest(stakers, launches, requests, w, l, p, amountUSD).requests
    /\ submitTiers' =
        IF submitRequest(stakers, launches, requests, w, l, p, amountUSD).ret.success
        THEN [submitTiers EXCEPT ![w] = @ \cup {heldTier(stakers, w)}]
        ELSE submitTiers
    /\ UNCHANGED <<probe, stakers, now, executions>>

SubmitRequest(w, l, p, amountUSD) == SubmitRequestWithin(MaxRequests, w, l, p, amountUSD)

OpenPool(l, p) ==
    /\ l \in DOMAIN launches =>
        Cardinality(openedPools(launches[l]) \cup {p}) <= MaxOpenedPools
    /\ launches' = setPoolStatus(launches, l, p, "open")
    /\ UNCHANGED <<probe, stakers, requests, now, submitTiers, executions>>

ClosePool(l, p) ==
    /\ l \in DOMAIN launches =>
        Cardinality(openedPools(launches[l]) \cup {p}) <= MaxOpenedPools
    /\ launches' = setPoolStatus(launches, l, p, "closed")
    /\ UNCHANGED <<probe, stakers, requests, now, submitTiers, executions>>

ExecuteGuaranteedPool(l) ==
    /\ MayExecute(l)
    /\ launches' = IF l \in DOMAIN launches
                   THEN [launches EXCEPT ![l] = executeGuaranteedPool(@, now)]
                   ELSE launches
    /\ Executed(l)
    /\ UNCHANGED <<probe, stakers, requests, now, submitTiers>>

ExecuteLotteryPool(l, p) ==
    /\ MayExecute(l)
    /\ IF l \in DOMAIN launches
       THEN \E after \in executeLotteryPool(launches[l], p, now) :
                launches' = [launches EXCEPT ![l] = after]
       ELSE launches' = launches
    /\ Executed(l)
    /\ UNCHANGED <<probe, stakers, requests, now, submitTiers>>

ExecuteFCFSPool(l) ==
    /\ MayExecute(l)
    /\ launches' = IF l \in DOMAIN launches
                   THEN [launches EXCEPT
                            ![l] = executeFCFSPool(@, IF l \in DOMAIN requests
                                                      THEN requests[l] ELSE <<>>)]
                   ELSE launches
    /\ Executed(l)
    /\ UNCHANGED <<probe, stakers, requests, now, submitTiers>>

ExecuteAllPools(l) ==
    /\ MayExecute(l)
    /\ IF l \in DOMAIN launches
       THEN \E after \in executeAllPools(launches[l],
                                         IF l \in DOMAIN requests
                                         THEN requests[l] ELSE <<>>,
                                         now) :
                launches' = [launches EXCEPT ![l] = after]
       ELSE launches' = launches
    /\ Executed(l)
    /\ UNCHANGED <<probe, stakers, requests, now, submitTiers>>

Next ==
    \/ \E w \in Wallets, amount \in StakeAmounts, lockDays \in StakeLockDays :
            Stake(w, amount, lockDays)
    \/ \E w \in Wallets, amount \in UnstakeAmounts, early \in BOOLEAN :
            Unstake(w, amount, early)
    \/ \E l \in LaunchIds, totalTokens \in TotalTokensOptions, tokenPrice \in TokenPrices :
            InitializeLaunch(l, totalTokens, tokenPrice)
    \/ \E w \in Wallets, l \in LaunchIds, p \in ParticipantPools, amountUSD \in RequestAmounts :
            SubmitRequest(w, l, p, amountUSD)
    \/ \E l \in LaunchIds, p \in ParticipantPools : OpenPool(l, p)
    \/ \E l \in LaunchIds, p \in ParticipantPools : ClosePool(l, p)
    \/ \E l \in LaunchIds : ExecuteGuaranteedPool(l)
    \/ \E l \in LaunchIds, k \in DOMAIN LotteryPools : ExecuteLotteryPool(l, LotteryPools[k])
    \/ \E l \in LaunchIds : ExecuteFCFSPool(l)
    \/ \E l \in LaunchIds : ExecuteAllPools(l)

Spec == Init /\ [][Next]_vars

(***************************************************************************)
(* The guaranteed pool on its own: a diamond and a gold staker whose scores *)
(* are updated, one launch, requests to the guaranteed pool and its        *)
(* distribution.                                                           *)
(***************************************************************************)
\* totalTokens and tokenPrice: 24 tokens at $100 (a pool of 7 tokens) and
\* 1,000,000 tokens at $0.001 (a pool of 300,000 tokens)
GuaranteedLaunches == {<<24, 100 * PriceUnit>>, <<1000000, 1>>}

GuaranteedSHS == {0, 50, 100}

\* the ledger after stake({w1, 100000, 180}) and stake({w2, 50000, 180})
InitGuaranteed ==
    /\ probe = NoProbe
    /\ stakers = [w \in Wallets |->
                    stakePosition(EmptyMap, 0, w,
                                  IF w = "w1" THEN 100000 ELSE 50000, 180)]
    /\ launches = EmptyMap
    /\ requests = EmptyMap
    /\ now = 0
    /\ submitTiers = [w \in Wallets |-> {}]
    /\ executions = [l \in LaunchIds |-> 0]

NextGuaranteed ==
    \/ \E w \in Wallets, newSHS \in GuaranteedSHS : UpdateSHS(w, newSHS)
    \/ \E l \in LaunchIds, config \in GuaranteedLaunches :
            InitializeLaunch(l, config[1], config[2])
    \/ \E l \in LaunchIds : OpenPool(l, "guaranteed")
    \/ \E w \in Wallets, l \in LaunchIds, amountUSD \in RequestAmounts :
            SubmitRequest(w, l, "guaranteed", amountUSD)
    \/ \E l \in LaunchIds : ExecuteGuaranteedPool(l)

SpecGuaranteed == InitGuaranteed /\ [][NextGuaranteed]_vars

(***************************************************************************)
(* The staking ledger on its own: stakes of 20,000 and 30,000 tokens,      *)
(* partial and full unstakes, and updateSHS with scores inside and outside *)
(* of 0..100.                                                              *)
(***************************************************************************)
LedgerStakeAmounts == {20000, 30000}

LedgerLockDays == {0, 90}

\* 60,000 is more than a wallet can hold
LedgerUnstakeAmounts == {20000, 30000, 60000}

\* newSHS is a number: updateSHS takes any
LedgerSHS == {-10, 0, 50, 100, 150}

NextStaking ==
    \/ \E w \in Wallets, amount \in LedgerStakeAmounts, lockDays \in LedgerLockDays :
            Stake(w, amount, lockDays)
    \/ \E w \in Wallets, amount \in LedgerUnstakeAmounts, early \in BOOLEAN :
            Unstake(w, amount, early)
    \/ \E w \in Wallets, newSHS \in LedgerSHS : UpdateSHS(w, newSHS)

SpecStaking == Init /\ [][NextStaking]_vars

(***************************************************************************)
(* Locks and the clock: stakes of 100 tokens locked for 0 or 30 days,      *)
(* unstakes of 50 and 100 tokens with and without the early flag, and a    *)
(* clock that advances in steps of 15 days.                                *)
(***************************************************************************)
\* the day the clock stops at
MaxClockDays == 45
\* the tokens a wallet holds at most
MaxLockStaked == 200

LockStakeAmounts == {100}

LockLockDays == {0, 30}

LockUnstakeAmounts == {50, 100}

ClockStepDays == 15

NextLock ==
    \/ \E w \in Wallets, amount \in LockStakeAmounts, lockDays \in LockLockDays :
            StakeWithin(MaxLockStaked, w, amount, lockDays)
    \/ \E w \in Wallets, amount \in LockUnstakeAmounts, early \in BOOLEAN :
            Unstake(w, amount, early)
    \/ Tick(ClockStepDays, MaxClockDays)

SpecLock == Init /\ [][NextLock]_vars

(***************************************************************************)
(* getTierForStake on its own: the function is applied to an amount and a  *)
(* lock, and probe holds the call and what it returned.                    *)
(***************************************************************************)
\* amounts at, just under and over the minStake of each tier
TierAmounts == {0, 4999, 5000, 19999, 20000, 49999, 50000, 99999, 100000, 250000}

\* locks at, just under and over the lockDays of each tier
TierLockDays == {0, 29, 30, 59, 60, 89, 90, 179, 180, 365}

InitTier ==
    /\ probe \in [fn : {"getTierForStake"}, amount : TierAmounts,
                  lockDays : TierLockDays, tier : {"none"}]
    /\ stakers = EmptyMap
    /\ launches = EmptyMap
    /\ requests = EmptyMap
    /\ now = 0
    /\ submitTiers = [w \in Wallets |-> {}]
    /\ executions = [l \in LaunchIds |-> 0]

GetTierForStake ==
    /\ probe.tier = "none"
    /\ probe' = [probe EXCEPT !.tier = getTierForStake(probe.amount, probe.lockDays)]
    /\ UNCHANGED <<stakers, launches, requests, now, submitTiers, executions>>

NextTier == GetTierForStake

SpecTier == InitTier /\ [][NextTier]_vars

(***************************************************************************)
(* calculateSHS on its own: the function is applied to a history, and      *)
(* probe holds the call and what it returned.                              *)
(***************************************************************************)
\* the largest count of launches held long and of quick flips in a history
MaxHistoryCount == 9

\* histories, with launchesHeldLong and quickFlips also above
\* launchesParticipated
Histories ==
    [holdDuration : {0, 45, 90, 400},
     launchesParticipated : {0, 1, 4},
     launchesHeldLong : {0, 2, MaxHistoryCount},
     quickFlips : {0, 2, MaxHistoryCount},
     lpProvided : BOOLEAN,
     governanceVotes : {0, 3, 12}]

\* calculateSHS has not returned
NoScore == [score |-> -1, unit |-> 1]

InitSHS ==
    /\ probe \in [fn : {"calculateSHS"}, history : Histories, result : {NoScore}]
    /\ stakers = EmptyMap
    /\ launches = EmptyMap
    /\ requests = EmptyMap
    /\ now = 0
    /\ submitTiers = [w \in Wallets |-> {}]
    /\ executions = [l \in LaunchIds |-> 0]

CalculateSHS ==
    /\ probe.result = NoScore
    /\ probe' = [probe EXCEPT !.result = calculateSHS(probe.history)]
    /\ UNCHANGED <<stakers, launches, requests, now, submitTiers, executions>>

NextSHS == CalculateSHS

SpecSHS == InitSHS /\ [][NextSHS]_vars

(***************************************************************************)
(* The staking ledger with a clock: the stakes, unstakes and score updates *)
(* of SpecStaking, and a clock that advances in steps of 15 days.          *)
(***************************************************************************)
NextLedger ==
    \/ NextStaking
    \/ Tick(ClockStepDays, MaxClockDays)

SpecLedger == Init /\ [][NextLedger]_vars

(***************************************************************************)
(* The staking ledger with its calls counted: probe holds, for every       *)
(* wallet, the sum of the amounts of its stake calls and the sum of the    *)
(* amounts of its unstake calls that returned.  stake() has no await       *)
(* between its read of the position and stakers.set, so calls for one      *)
(* wallet that are issued together run one after the other, each in one    *)
(* step.                                                                   *)
(***************************************************************************)
\* stake calls counted per wallet
MaxStakeCalls == 3

InitCounted ==
    /\ probe = [fn |-> "ledger",
                staked |-> [w \in Wallets |-> 0],
                unstaked |-> [w \in Wallets |-> 0]]
    /\ stakers = EmptyMap
    /\ launches = EmptyMap
    /\ requests = EmptyMap
    /\ now = 0
    /\ submitTiers = [w \in Wallets |-> {}]
    /\ executions = [l \in LaunchIds |-> 0]

StakeCounted(w, amount, lockDays) ==
    /\ probe.staked[w] + amount <= MaxStakeCalls * 30000
    /\ stakers' = MapSet(stakers, w, stakePosition(stakers, now, w, amount, lockDays))
    /\ probe' = [probe EXCEPT !.staked[w] = @ + amount]
    /\ UNCHANGED <<launches, requests, now, submitTiers, executions>>

UnstakeCounted(w, amount, early) ==
    /\ stakers' = unstake(stakers, now, w, amount, early).stakers
    /\ probe' = IF unstake(stakers, now, w, amount, early).ret.outcome = "returned"
                THEN [probe EXCEPT !.unstaked[w] = @ + amount]
                ELSE probe
    /\ UNCHANGED <<launches, requests, now, submitTiers, executions>>

NextCounted ==
    \/ \E w \in Wallets, amount \in LedgerStakeAmounts, lockDays \in LedgerLockDays :
            StakeCounted(w, amount, lockDays)
    \/ \E w \in Wallets, amount \in LedgerUnstakeAmounts, early \in BOOLEAN :
            UnstakeCounted(w, amount, early)

SpecCounted == InitCounted /\ [][NextCounted]_vars

(***************************************************************************)
(* Requests and the staking ledger: wallets stake and unstake 50,000       *)
(* tokens and have their scores updated before and after they submit       *)
(* requests to a lottery pool.                                             *)
(***************************************************************************)
SnapshotSHS == {0, 100}

SnapshotPools == {"weighted_lottery", "public_lottery"}

NextSnapshot ==
    \/ \E w \in Wallets, lockDays \in StakeLockDays : Stake(w, 50000, lockDays)
    \/ \E w \in Wallets, early \in BOOLEAN : Unstake(w, 50000, early)
    \/ \E w \in Wallets, newSHS \in SnapshotSHS : UpdateSHS(w, newSHS)
    \/ \E l \in LaunchIds : InitializeLaunch(l, 20, 100 * PriceUnit)
    \/ \E l \in LaunchIds, p \in SnapshotPools : OpenPool(l, p)
    \/ \E w \in Wallets, l \in LaunchIds, p \in SnapshotPools, amountUSD \in RequestAmounts :
            SubmitRequest(w, l, p, amountUSD)

SpecSnapshot == Init /\ [][NextSnapshot]_vars

(***************************************************************************)
(* The lottery pools on their own: wallets without a position and wallets  *)
(* that staked 50,000 tokens, with scores 0 and 100, request $1, $300 or   *)
(* $30,000 from a lottery pool of a launch of 20 tokens at $100, and the   *)
(* pool is drawn, once or again.                                           *)
(***************************************************************************)
LotteryAmounts == {1, 300, 30000}

NextLottery ==
    \/ \E w \in Wallets, lockDays \in StakeLockDays : Stake(w, 50000, lockDays)
    \/ \E w \in Wallets, newSHS \in SnapshotSHS : UpdateSHS(w, newSHS)
    \/ \E l \in LaunchIds : InitializeLaunch(l, 20, 100 * PriceUnit)
    \/ \E l \in LaunchIds, p \in SnapshotPools : OpenPool(l, p)
    \/ \E w \in Wallets, l \in LaunchIds, p \in SnapshotPools, amountUSD \in LotteryAmounts :
            SubmitRequest(w, l, p, amountUSD)
    \/ \E l \in LaunchIds, p \in SnapshotPools : ExecuteLotteryPool(l, p)

SpecLottery == Init /\ [][NextLottery]_vars

(***************************************************************************)
(* The fcfs pool on its own: launches whose fcfs pool holds 1 and 3        *)
(* tokens, at $100 a token (maxPerWallet buys 1 token), up to              *)
(* MaxFcfsRequests requests to the pool, and its distribution.             *)
(***************************************************************************)
\* fcfs requests accepted per launch
MaxFcfsRequests == 3

FcfsTotals == {20, 60}

NextFcfs ==
    \/ \E l \in LaunchIds, totalTokens \in FcfsTotals :
            InitializeLaunch(l, totalTokens, 100 * PriceUnit)
    \/ \E l \in LaunchIds : OpenPool(l, "fcfs")
    \/ \E l \in LaunchIds : ClosePool(l, "fcfs")
    \/ \E w \in Wallets, l \in LaunchIds, amountUSD \in RequestAmounts :
            SubmitRequestWithin(MaxFcfsRequests, w, l, "fcfs", amountUSD)
    \/ \E l \in LaunchIds : ExecuteFCFSPool(l)

SpecFcfs == Init /\ [][NextFcfs]_vars

(***************************************************************************)
(* Requests below the price of a token: gold stakers and wallets without a *)
(* position request $50 or $300 from the guaranteed, the public_lottery or *)
(* the fcfs pool of a launch at $100 a token, and the pool is distributed. *)
(***************************************************************************)
CapAmounts == {50, 300}

CapPools == {"guaranteed", "public_lottery", "fcfs"}

NextCap ==
    \/ \E w \in Wallets : Stake(w, 50000, 180)
    \/ \E l \in LaunchIds, totalTokens \in FcfsTotals :
            InitializeLaunch(l, totalTokens, 100 * PriceUnit)
    \/ \E l \in LaunchIds, p \in CapPools : OpenPool(l, p)
    \/ \E w \in Wallets, l \in LaunchIds, p \in CapPools, amountUSD \in CapAmounts :
            SubmitRequest(w, l, p, amountUSD)
    \/ \E l \in LaunchIds : ExecuteGuaranteedPool(l)
    \/ \E l \in LaunchIds : ExecuteLotteryPool(l, "public_lottery")
    \/ \E l \in LaunchIds : ExecuteFCFSPool(l)

SpecCap == Init /\ [][NextCap]_vars

(***************************************************************************)
(* createVestingSchedule on its own: the function is applied to an amount  *)
(* and a number of tokens, and probe holds the call and what it returned.  *)
(***************************************************************************)
\* the largest number of tokens a schedule is built for
MaxVestingTokens == 60

\* amountUSD in 1/PriceUnit dollars: amounts at, just under and just over the
\* maxUSD of each vesting tier, and $1,500
VestingAmounts == {0, 500 * PriceUnit, 500 * PriceUnit + 1, 1500 * PriceUnit,
                   2000 * PriceUnit,
                   2000 * PriceUnit + 1, 10000 * PriceUnit, 10000 * PriceUnit + 1,
                   2000000 * PriceUnit}

InitVesting ==
    /\ probe \in [fn : {"createVestingSchedule"}, amountUSD : VestingAmounts,
                  tokens : 0..MaxVestingTokens, schedule : {NullSchedule}]
    /\ stakers = EmptyMap
    /\ launches = EmptyMap
    /\ requests = EmptyMap
    /\ now = 0
    /\ submitTiers = [w \in Wallets |-> {}]
    /\ executions = [l \in LaunchIds |-> 0]

CreateVestingSchedule ==
    /\ probe.schedule = NullSchedule
    /\ probe' = [probe EXCEPT
                    !.schedule = createVestingSchedule(probe.amountUSD, probe.tokens, now)]
    /\ UNCHANGED <<stakers, launches, requests, now, submitTiers, executions>>

NextVesting == CreateVestingSchedule

SpecVesting == InitVesting /\ [][NextVesting]_vars

(***************************************************************************)
(* initializeLaunch on its own: launches of 1 to MaxPartitionTokens tokens *)
(* and of 1,000,000 tokens, at $0.001 a token.                             *)
(***************************************************************************)
\* the largest of the small launches
MaxPartitionTokens == 200

PartitionTotals == 1..MaxPartitionTokens \cup {1000000}

NextPartition ==
    \E l \in LaunchIds, totalTokens \in PartitionTotals :
        InitializeLaunch(l, totalTokens, 1)

SpecPartition == Init /\ [][NextPartition]_vars

(***************************************************************************)
(* Properties of the distribution operations.                              *)
(***************************************************************************)
\* a step in which a distribution call changed launch l
DistributionStep(l) ==
    /\ l \in DOMAIN launches
    /\ l \in DOMAIN launches'
    /\ executions'[l] = executions[l] + 1

\* a step in which initializeLaunch stored a fresh launch under l
InitializeStep(l) ==
    /\ l \in DOMAIN launches'
    /\ \E totalTokens \in TotalTokensOptions, tokenPrice \in TokenPrices :
            launches'[l] = initializeLaunch(totalTokens, tokenPrice)

\* C1 Conservation: in every reachable state every pool of every launch has
\* allocated <= totalTokens.
Conservation ==
    \A l \in DOMAIN launches : \A p \in Pools :
        launches[l].pools[p].allocated <= launches[l].pools[p].totalTokens

\* C2 Idempotent terminal state: a distribution call on a launch (a single
\* pool's, or executeAllPools) leaves the allocated and remaining counters of
\* every pool that is already 'distributed' as they were.
IdempotentTerminalState ==
    [][\A l \in LaunchIds : \A p \in Pools :
            (DistributionStep(l) /\ launches[l].pools[p].status = "distributed")
            => /\ launches'[l].pools[p].allocated = launches[l].pools[p].allocated
               /\ launches'[l].pools[p].remaining = launches[l].pools[p].remaining]_vars

\* C3 No double award: a distribution call changes the status, allocatedTokens
\* and allocatedValueUSD of no entry of a pool that is already 'distributed'.
NoDoubleAward ==
    [][\A l \in LaunchIds : \A p \in Pools :
            (DistributionStep(l) /\ launches[l].pools[p].status = "distributed")
            => \A i \in DOMAIN launches[l].pools[p].participants :
                LET before == launches[l].pools[p].participants[i]
                    after == launches'[l].pools[p].participants[i]
                IN  /\ after.status = before.status
                    /\ after.allocatedTokens = before.allocatedTokens
                    /\ after.allocatedValueUSD = before.allocatedValueUSD]_vars

\* pending < open < closed < distributed
StatusRank(status) == indexOf(<<"pending", "open", "closed", "distributed">>, status)

\* C4 Pool status is monotone: no operation on a launch moves a pool's status
\* back in the order pending < open < closed < distributed (initializeLaunch,
\* which replaces the launch by a fresh one, set aside).
StatusMonotone ==
    [][\A l \in LaunchIds : \A p \in Pools :
            (l \in DOMAIN launches /\ ~InitializeStep(l))
            => StatusRank(launches'[l].pools[p].status)
                    >= StatusRank(launches[l].pools[p].status)]_vars

(***************************************************************************)
(* Properties of submitRequest and unstake.                                *)
(***************************************************************************)
\* C5 Requests are accepted only while the pool is open: submitRequest on a
\* pool whose status is not 'open' returns a failure and leaves every
\* participant list and the request log as they are; a submitRequest that
\* lengthens a participant list is one on a pool that is 'open' now, and that
\* pool's list is the only one it lengthens.
AcceptedOnlyWhileOpen ==
    \A w \in Wallets, l \in DOMAIN launches, p \in Pools, a \in RequestAmounts :
        LET r == submitRequest(stakers, launches, requests, w, l, p, a)
        IN  /\ launches[l].pools[p].status # "open"
                => /\ r.ret.outcome = "returned"
                   /\ ~r.ret.success
                   /\ r.launches = launches
                   /\ r.requests = requests
            /\ \A q \in Pools :
                Len(r.launches[l].pools[q].participants)
                    > Len(launches[l].pools[q].participants)
                => q = p /\ launches[l].pools[q].status = "open"

\* C5: a closed pool holds an accepted entry and turns the next request away
AcceptedThenClosed ==
    \E l \in DOMAIN launches, p \in Pools :
        /\ launches[l].pools[p].status = "closed"
        /\ launches[l].pools[p].participants # <<>>
        /\ ~submitRequest(stakers, launches, requests, "w1", l, p, 300).ret.success

\* does the call complete without a successful result
Rejected(ret) == ret.outcome # "returned" \/ ~ret.success

\* C6 A rejected operation leaves all ledgers untouched: a submitRequest that
\* fails leaves the launches (participant lists, counters) and the request log
\* as they were, and an unstake that fails leaves the staking ledger as it was.
RejectedLeavesLedgers ==
    /\ \A w \in Wallets, l \in LaunchIds, p \in Pools, a \in RequestAmounts :
            LET r == submitRequest(stakers, launches, requests, w, l, p, a)
            IN  Rejected(r.ret) => r.launches = launches /\ r.requests = requests
    /\ \A w \in Wallets, a \in UnstakeAmounts, early \in BOOLEAN :
            LET r == unstake(stakers, now, w, a, early)
            IN  Rejected(r.ret) => r.stakers = stakers

\* C6: with a position in the ledger and an entry in an open pool, an unstake
\* above the balance and a request that misses the tier are both rejected
RejectedWithLedgersFilled ==
    \E w \in Wallets, l \in DOMAIN launches, p \in Pools :
        /\ w \in DOMAIN stakers
        /\ Rejected(unstake(stakers, now, w, 150000, TRUE).ret)
        /\ launches[l].pools[p].status = "open"
        /\ launches[l].pools[p].participants # <<>>
        /\ l \in DOMAIN requests /\ requests[l] # <<>>
        /\ Rejected(submitRequest(stakers, launches, requests, w, l, p, 300).ret)

\* C7 Failures are returned, never thrown: every unstake and every
\* submitRequest completes by returning a result.
FailuresAreReturned ==
    /\ \A w \in Wallets, a \in UnstakeAmounts, early \in BOOLEAN :
            unstake(stakers, now, w, a, early).ret.outcome = "returned"
    /\ \A w \in Wallets, l \in LaunchIds, p \in Pools, a \in RequestAmounts :
            submitRequest(stakers, launches, requests, w, l, p, a).ret.outcome
                = "returned"

\* public < bronze < silver < gold < diamond
TierRank(tier) == indexOf(<<"public", "bronze", "silver", "gold", "diamond">>, tier)

\* C8 Tier gate: on a pool with requiresStaking, submitRequest succeeds only
\* for a wallet that has a position whose tier is at or above the pool's
\* minimum tier (guaranteed: gold, weighted_lottery: bronze).
TierGate ==
    /\ POOL_CONFIG.guaranteed.minTier = "gold"
    /\ POOL_CONFIG.weighted_lottery.minTier = "bronze"
    /\ \A w \in Wallets, l \in LaunchIds, p \in Pools, a \in RequestAmounts :
            ( /\ POOL_CONFIG[p].requiresStaking
              /\ submitRequest(stakers, launches, requests, w, l, p, a).ret.success )
            => /\ w \in DOMAIN stakers
               /\ TierRank(stakers[w].tier) >= TierRank(POOL_CONFIG[p].minTier)

\* C8: a staking pool is open and holds the entry of one wallet, and turns away
\* another wallet whose position is classified public
TierGateTurnsAway ==
    \E l \in DOMAIN launches, p \in Pools, w \in Wallets :
        /\ POOL_CONFIG[p].requiresStaking
        /\ launches[l].pools[p].status = "open"
        /\ launches[l].pools[p].participants # <<>>
        /\ w \in DOMAIN stakers
        /\ stakers[w].tier = "public"
        /\ ~submitRequest(stakers, launches, requests, w, l, p, 300).ret.success

\* the USD value of the filled or won entries of a wallet in a pool
awardedValueUSD(pool, w) ==
    SumSeq([i \in DOMAIN pool.participants |->
                IF i \in awarded(pool.participants) /\ pool.participants[i].wallet = w
                THEN pool.participants[i].allocatedValueUSD
                ELSE 0])

\* the tokens of the filled or won entries of a wallet in a pool
awardedTokens(pool, w) ==
    SumSeq([i \in DOMAIN pool.participants |->
                IF i \in awarded(pool.participants) /\ pool.participants[i].wallet = w
                THEN pool.participants[i].allocatedTokens
                ELSE 0])

\* C9 Per-wallet pool cap: in a distributed pool the USD value awarded to a
\* wallet, summed over its filled and won entries, is at most the pool's
\* maxPerWallet.
PerWalletPoolCap ==
    \A l \in DOMAIN launches, p \in ParticipantPools, w \in Wallets :
        launches[l].pools[p].status = "distributed"
        => awardedValueUSD(launches[l].pools[p], w) <= POOL_CONFIG[p].maxPerWallet * PriceUnit

\* maxAllocationPercent, in 1/10 percent, of the highest tier among tiers
capPercent10(tiers) ==
    IF tiers = {} THEN 0
    ELSE LET top == CHOOSE t \in tiers : \A u \in tiers : TierRank(u) <= TierRank(t)
         IN  TIER_CONFIG[top].maxAllocationPercent10

\* C10 Per-tier launch cap: in the state executeAllPools leaves, the tokens
\* awarded to a wallet over all pools of the launch are at most
\* maxAllocationPercent of the launch's totalTokens, for the (highest) tier the
\* wallet held when it submitted.
PerTierLaunchCap ==
    [][\A l \in LaunchIds :
            ( /\ DistributionStep(l)
              /\ launches'[l] \in executeAllPools(launches[l], requests[l], now) )
            => \A w \in Wallets :
                SumSeq([k \in DOMAIN AllocationPool |->
                            awardedTokens(launches'[l].pools[AllocationPool[k]], w)]) * 1000
                    <= capPercent10(submitTiers[w]) * launches'[l].totalTokens]_vars

(***************************************************************************)
(* Properties of the guaranteed pool (SpecGuaranteed).                     *)
(***************************************************************************)
\* floor(poolTokens * weight / totalWeight)
floorOfShare(poolTokens, weight, totalWeight) ==
    LET q == poolTokens \div totalWeight
        r == poolTokens % totalWeight
    IN  q * weight + (r * weight) \div totalWeight

\* the sum of the weights of a participant list
weightOf(participants) ==
    SumSeq([i \in DOMAIN participants |-> participants[i].weight])

\* is the award of entry i of the guaranteed pool limited by the entry's own
\* requested-token cap floor(requestedUSD / tokenPrice)
capLimited(launch, i) ==
    LET pool == launch.pools.guaranteed
    IN  tokensFor(pool.participants[i].requestedAmount, launch.tokenPrice)
            < floorOfShare(pool.totalTokens, pool.participants[i].weight,
                           weightOf(pool.participants))

\* C11, as the specification states it: after the first executeGuaranteedPool
\* on a pool with participants, allocated < totalTokens only if some
\* participant is cap-limited.
GuaranteedShortOnlyByCap ==
    [][\A l \in LaunchIds :
            ( /\ DistributionStep(l)
              /\ launches[l].pools.guaranteed.allocated = 0
              /\ launches'[l].pools.guaranteed.allocated
                    < launches'[l].pools.guaranteed.totalTokens )
            => \E i \in DOMAIN launches[l].pools.guaranteed.participants :
                    capLimited(launches[l], i)]_vars

\* C11, amended: an executeGuaranteedPool call on a pool with participants adds
\* at most totalTokens to allocated; when no participant is cap-limited, what
\* it adds falls short of totalTokens by at most one token per participant
\* (the tokens lost by flooring every share).
GuaranteedShortfall ==
    [][\A l \in LaunchIds :
            DistributionStep(l)
            => LET before == launches[l].pools.guaranteed
                   added == launches'[l].pools.guaranteed.allocated - before.allocated
               IN  /\ added <= before.totalTokens
                   /\ (\A i \in DOMAIN before.participants : ~capLimited(launches[l], i))
                        => before.totalTokens - added <= Len(before.participants)]_vars

\* C11: a first distribution in which nobody is cap-limited has left tokens of
\* the pool unallocated
FlooringLeavesTokens ==
    \E l \in DOMAIN launches :
        LET pool == launches[l].pools.guaranteed
        IN  /\ pool.status = "distributed"
            /\ executions[l] = 1
            /\ pool.participants # <<>>
            /\ \A i \in DOMAIN pool.participants : ~capLimited(launches[l], i)
            /\ pool.allocated < pool.totalTokens

entriesWith(participants, w, status) ==
    {i \in DOMAIN participants :
        participants[i].wallet = w /\ participants[i].status = status}

\* C13 One award per wallet per lottery pool: in every reachable state, whatever
\* the shuffles were, a wallet has at most one entry with status 'won' in each
\* of weighted_lottery, public_lottery and flipper.
OneWinPerWallet ==
    \A l \in DOMAIN launches, k \in DOMAIN LotteryPools, w \in Wallets :
        Cardinality(entriesWith(launches[l].pools[LotteryPools[k]].participants,
                                w, "won")) <= 1

\* C13: a wallet that entered a lottery pool twice has won with one entry and
\* lost with the other
WonOnceWithTwoEntries ==
    \E l \in DOMAIN launches, k \in DOMAIN LotteryPools, w \in Wallets :
        LET participants == launches[l].pools[LotteryPools[k]].participants
        IN  /\ Cardinality(entriesWith(participants, w, "won")) = 1
            /\ Cardinality(entriesWith(participants, w, "lost")) = 1

\* the smallest of three numbers
Min3(a, b, c) == IF a <= b /\ a <= c THEN a ELSE IF b <= c THEN b ELSE c

\* The awards of the wallets drawn in the given order from a pool that has
\* `remaining` tokens left: each draw takes min(floor(maxPerWallet / tokenPrice),
\* floor(requestedUSD / tokenPrice), remaining), and the drawing stops when
\* nothing remains.
RECURSIVE awardsInOrder(_, _, _, _, _)
awardsInOrder(order, participants, maxPerWallet, tokenPrice, remaining) ==
    IF order = <<>> \/ remaining <= 0
    THEN <<>>
    ELSE LET first == CHOOSE i \in DOMAIN participants :
                        /\ participants[i].wallet = Head(order)
                        /\ \A j \in 1..(i - 1) : participants[j].wallet # Head(order)
             award == Min3((maxPerWallet * PriceUnit) \div tokenPrice,
                           (participants[first].requestedAmount * PriceUnit)
                                \div tokenPrice,
                           remaining)
         IN  <<award>> \o awardsInOrder(Tail(order), participants, maxPerWallet,
                                        tokenPrice, remaining - award)

\* C14 Lottery award size: whatever the shuffle, an execution of a lottery pool
\* draws its winners in some order of the ticket-holding wallets; each winner
\* drawn is left 'won' with exactly min(floor(maxPerWallet / tokenPrice),
\* floor(requestedUSD / tokenPrice), tokens remaining at its draw), and the
\* awards of the execution, which are what it adds to allocated, sum to at
\* most the pool's totalTokens.
LotteryAwardSize ==
    [][\A l \in LaunchIds, k \in DOMAIN LotteryPools :
            ( /\ DistributionStep(l)
              /\ launches'[l].pools[LotteryPools[k]] # launches[l].pools[LotteryPools[k]] )
            => LET before == launches[l].pools[LotteryPools[k]]
                   after == launches'[l].pools[LotteryPools[k]]
                   holders == {before.participants[i].wallet :
                                i \in {j \in DOMAIN before.participants :
                                        before.participants[j].lotteryTickets >= 1}}
               IN  \E order \in DrawOrders(holders) :
                    LET awards == awardsInOrder(order, before.participants,
                                                POOL_CONFIG[LotteryPools[k]].maxPerWallet,
                                                launches[l].tokenPrice,
                                                before.totalTokens)
                    IN  /\ \A n \in DOMAIN awards :
                            \E i \in DOMAIN after.participants :
                                /\ after.participants[i].wallet = order[n]
                                /\ after.participants[i].status = "won"
                                /\ after.participants[i].allocatedTokens = awards[n]
                        /\ after.allocated - before.allocated = SumSeq(awards)
                        /\ SumSeq(awards) <= before.totalTokens]_vars

\* C14: a winner was drawn when the pool held less than it asked for and took
\* what was left, and another wallet lost
WinnerTookTheRest ==
    \E l \in DOMAIN launches, k \in DOMAIN LotteryPools :
        LET pool == launches[l].pools[LotteryPools[k]]
        IN  /\ pool.status = "distributed"
            /\ executions[l] = 1
            /\ \E i, j \in DOMAIN pool.participants :
                /\ pool.participants[i].status = "won"
                /\ pool.participants[i].allocatedTokens = pool.totalTokens
                /\ pool.participants[i].allocatedTokens
                    < tokensFor(pool.participants[i].requestedAmount, launches[l].tokenPrice)
                /\ pool.participants[j].status = "lost"
                /\ pool.participants[j].wallet # pool.participants[i].wallet

\* the wallets of the fcfs requests accepted for launch l, in arrival order
fcfsArrivals(l) ==
    IF l \in DOMAIN requests
    THEN LET accepted == SelectSeq(requests[l], LAMBDA r : r.pool = "fcfs")
         IN  [n \in DOMAIN accepted |-> accepted[n].wallet]
    ELSE <<>>

\* What the requests get that are served in arrival order from a pool with
\* `remaining` tokens left: each takes min(maxTokens, remaining), and the
\* serving stops when nothing remains. The result has one amount for each
\* request served.
RECURSIVE servedInOrder(_, _, _)
servedInOrder(arrivals, maxTokens, remaining) ==
    IF arrivals = <<>> \/ remaining <= 0
    THEN <<>>
    ELSE LET amount == IF maxTokens <= remaining THEN maxTokens ELSE remaining
         IN  <<amount>> \o servedInOrder(Tail(arrivals), maxTokens, remaining - amount)

\* C15 FCFS serves in arrival order: submitRequest appends an entry to the
\* pool with every request it accepts, so the n-th entry of the fcfs pool is
\* the entry of the n-th fcfs request accepted. In an execution of the fcfs
\* pool the entry of each request served, in arrival order while tokens
\* remain, is left 'filled' with min(floor(maxPerWallet / tokenPrice), tokens
\* remaining); if wallet A's request was accepted before wallet B's and B's
\* entry is filled, A's entry is filled too; and every entry that was pending
\* and not served is 'lost'.
FcfsArrivalOrder ==
    [][\A l \in LaunchIds :
            ( /\ DistributionStep(l)
              /\ launches'[l].pools.fcfs # launches[l].pools.fcfs )
            => LET before == launches[l].pools.fcfs
                   after == launches'[l].pools.fcfs
                   arrivals == fcfsArrivals(l)
                   amounts == servedInOrder(arrivals,
                                (POOL_CONFIG.fcfs.maxPerWallet * PriceUnit)
                                    \div launches[l].tokenPrice,
                                before.totalTokens)
               IN  /\ Len(after.participants) = Len(arrivals)
                   /\ \A n \in DOMAIN arrivals : after.participants[n].wallet = arrivals[n]
                   /\ \A n \in DOMAIN amounts :
                        /\ after.participants[n].status = "filled"
                        /\ after.participants[n].allocatedTokens = amounts[n]
                   /\ \A a, b \in DOMAIN arrivals :
                        ( /\ a < b
                          /\ arrivals[a] # arrivals[b]
                          /\ after.participants[b].status = "filled" )
                        => after.participants[a].status = "filled"
                   /\ \A n \in DOMAIN arrivals :
                        ( /\ before.participants[n].status = "pending"
                          /\ n \notin DOMAIN amounts )
                        => after.participants[n].status = "lost"]_vars

(***************************************************************************)
(* Properties of createVestingSchedule (SpecVesting).                      *)
(***************************************************************************)
\* the amounts of a schedule's releases
releaseAmounts(schedule) ==
    [n \in DOMAIN schedule.releases |-> schedule.releases[n].amount]

\* C16 Vesting sum law: for every amountUSD >= 0 and every whole number of
\* tokens >= 0, the release amounts of the schedule createVestingSchedule
\* builds sum exactly to tokens: one release of all the tokens when the tier
\* has no vesting, and otherwise the TGE release and four tranches, the last
\* of which takes the remainder of the division.
VestingSumLaw ==
    probe.schedule # NullSchedule
    => LET schedule == probe.schedule
           amounts == releaseAmounts(schedule)
       IN  /\ schedule.totalTokens = probe.tokens
           /\ SumSeq(amounts) = probe.tokens
           /\ \A n \in DOMAIN amounts : amounts[n] >= 0
           /\ IF schedule.vestingDays = 0
              THEN amounts = <<probe.tokens>>
              ELSE /\ Len(amounts) = 5
                   /\ amounts[2] = (probe.tokens - amounts[1]) \div 4
                   /\ amounts[3] = amounts[2]
                   /\ amounts[4] = amounts[2]
                   /\ amounts[5] = amounts[2] + ((probe.tokens - amounts[1]) % 4)

\* C16: a schedule of a TGE release and four tranches was built whose last
\* tranche is larger than the others
LastTrancheTakesRemainder ==
    /\ probe.schedule # NullSchedule
    /\ Len(probe.schedule.releases) = 5
    /\ probe.schedule.releases[1].amount > 0
    /\ probe.schedule.releases[5].amount > probe.schedule.releases[4].amount

(***************************************************************************)
(* Properties of the entries of all pools (Spec).                          *)
(***************************************************************************)
\* C17 Every awarded entry carries a vesting schedule: in every reachable
\* state each entry with status 'filled' or 'won', in any pool, has a
\* vestingSchedule that is not null and whose totalTokens equals the entry's
\* allocatedTokens.
AwardedEntriesHaveSchedule ==
    \A l \in DOMAIN launches, p \in ParticipantPools :
        \A i \in DOMAIN launches[l].pools[p].participants :
            LET entry == launches[l].pools[p].participants[i]
            IN  entry.status \in {"filled", "won"}
                => /\ entry.vestingSchedule # NullSchedule
                   /\ entry.vestingSchedule.totalTokens = entry.allocatedTokens

(***************************************************************************)
(* Properties of initializeLaunch (SpecPartition).                         *)
(***************************************************************************)
\* the totalTokens of the seven pools of a launch, in the order of POOL_CONFIG
poolTotals(launch) ==
    [i \in DOMAIN AllocationPool |-> launch.pools[AllocationPool[i]].totalTokens]

vestedSchedule(tokens, cliffDays, vestingDays, percent, t) ==
    LET tgeAmount == (tokens * percent) \div 100
        rest == tokens - tgeAmount
    IN  [totalTokens |-> tokens, releasedTokens |-> 0,
         cliffDays |-> cliffDays, vestingDays |-> vestingDays, startDate |-> t,
         releases |->
            <<[date |-> t, amount |-> tgeAmount, released |-> FALSE],
              [date |-> t + ((4 * cliffDays + 1 * vestingDays) * HoursPerDay) \div 4,
               amount |-> rest \div 4, released |-> FALSE],
              [date |-> t + ((4 * cliffDays + 2 * vestingDays) * HoursPerDay) \div 4,
               amount |-> rest \div 4, released |-> FALSE],
              [date |-> t + ((4 * cliffDays + 3 * vestingDays) * HoursPerDay) \div 4,
               amount |-> rest \div 4, released |-> FALSE],
              [date |-> t + ((4 * cliffDays + 4 * vestingDays) * HoursPerDay) \div 4,
               amount |-> rest - 3 * (rest \div 4), released |-> FALSE]>>]

StoredSHSInRange ==
    \A w \in DOMAIN stakers :
        /\ 0 <= stakers[w].strongHolderScore
        /\ stakers[w].strongHolderScore <= 100

\* C20 Weight consistency: after any sequence of stake, unstake and updateSHS
\* calls, every position in the staking ledger has effectiveWeight =
\* allocationWeight(tier) * (0.5 + (strongHolderScore / 100) * 1.5), here in
\* 1/800: 4 * allocationWeight times 200 * (0.5 + shs * 1.5 / 100).
WeightConsistency ==
    \A w \in DOMAIN stakers :
        stakers[w].effectiveWeight
            = TIER_CONFIG[stakers[w].tier].allocationWeight4
                * (100 + 3 * stakers[w].strongHolderScore)

\* C20: a silver position of 30,000 locked tokens whose score updateSHS has
\* set to 100, with the weight 5 * 2.0
SilverWithFullScore ==
    \E w \in DOMAIN stakers :
        /\ stakers[w].stakedAmount = 30000
        /\ stakers[w].lockEndDate > now
        /\ stakers[w].tier = "silver"
        /\ stakers[w].strongHolderScore = 100
        /\ stakers[w].effectiveWeight = 4000

(***************************************************************************)
(* Properties of locks and unstaking (SpecLock).                           *)
(***************************************************************************)
\* C21 Lock-end is monotone per wallet: with a clock that never goes back,
\* the lock-end date of a wallet's position never decreases: not by a stake
\* that adds to the position, not by an unstake that leaves a position, and
\* not when a full unstake deletes the position and a stake, now or at any
\* later time, creates it again.
LockEndMonotone ==
    \A w \in DOMAIN stakers :
        /\ \A amount \in LockStakeAmounts, lockDays \in LockLockDays :
            stakePosition(stakers, now, w, amount, lockDays).lockEndDate
                >= stakers[w].lockEndDate
        /\ \A x \in LockUnstakeAmounts, early \in BOOLEAN :
            LET left == unstake(stakers, now, w, x, early).stakers
            IN  IF w \in DOMAIN left
                THEN left[w].lockEndDate >= stakers[w].lockEndDate
                ELSE \A t \in now..(MaxClockDays * HoursPerDay),
                        amount \in LockStakeAmounts, lockDays \in LockLockDays :
                        stakePosition(left, t, w, amount, lockDays).lockEndDate
                            >= stakers[w].lockEndDate

\* the staked balance of a wallet in a ledger, 0 when it has no position
stakedBalance(stk, w) == IF w \in DOMAIN stk THEN stk[w].stakedAmount ELSE 0

LockedUnstakeIsPenalised ==
    \A w \in DOMAIN stakers, x \in LockUnstakeAmounts, early \in BOOLEAN :
        LET result == unstake(stakers, now, w, x, early)
        IN  ( /\ stakers[w].lockEndDate > now
              /\ result.ret.outcome = "returned"
              /\ result.ret.success )
            => result.ret.penaltyApplied > 0

(***************************************************************************)
(* Properties of getTierForStake (SpecTier).                               *)
(***************************************************************************)
\* the tiers whose minimum stake and minimum lock days are both met
tiersMet(amount, lockDays) ==
    {tier \in StakingTier :
        /\ amount >= TIER_CONFIG[tier].minStake
        /\ lockDays >= TIER_CONFIG[tier].lockDays}

\* C22 Tier monotonicity: under public < bronze < silver < gold < diamond,
\* getTierForStake(a, d) <= getTierForStake(a', d') whenever a <= a' and
\* d <= d'; the result is the highest tier whose minimum stake and minimum
\* lock days are both met, and public when no staking tier is met.
TierMonotone ==
    probe.tier # "none"
    => /\ probe.tier \in tiersMet(probe.amount, probe.lockDays)
       /\ \A tier \in tiersMet(probe.amount, probe.lockDays) :
            TierRank(tier) <= TierRank(probe.tier)
       /\ tiersMet(probe.amount, probe.lockDays) = {"public"} => probe.tier = "public"
       /\ \A amount \in TierAmounts, lockDays \in TierLockDays :
            (probe.amount <= amount /\ probe.lockDays <= lockDays)
            => TierRank(probe.tier) <= TierRank(getTierForStake(amount, lockDays))

\* C22: an amount that meets gold with a lock that meets only silver came out
\* as silver
LockHoldsTierDown ==
    /\ probe.tier = "silver"
    /\ probe.amount >= TIER_CONFIG.gold.minStake
    /\ probe.lockDays < TIER_CONFIG.gold.lockDays

(***************************************************************************)
(* Properties of calculateSHS (SpecSHS).                                   *)
(***************************************************************************)
\* C23 SHS bounds: for every history of non-negative whole holdDuration,
\* launchesParticipated, launchesHeldLong, quickFlips and governanceVotes and
\* either lpProvided, also when launchesHeldLong or quickFlips exceed
\* launchesParticipated, calculateSHS returns a value in [0, 100].
SHSBounds ==
    probe.result # NoScore
    => /\ 0 <= probe.result.score
       /\ probe.result.score <= 100 * probe.result.unit

\* C23: a history with more quick flips than launches came out at 0, the
\* sum of its terms being negative
FlipsPullScoreToZero ==
    /\ probe.result # NoScore
    /\ probe.history.quickFlips > probe.history.launchesParticipated
    /\ probe.history.launchesHeldLong = 0
    /\ probe.result.score = 0

(***************************************************************************)
(* Properties of the launch records (Spec).                                *)
(***************************************************************************)
\* the tokens of the entries of a wallet in one pool that are filled or won
awardedInPool(pool, w) ==
    SumSeq([i \in DOMAIN pool.participants |->
                IF /\ pool.participants[i].wallet = w
                   /\ pool.participants[i].status \in {"filled", "won"}
                THEN pool.participants[i].allocatedTokens
                ELSE 0])

\* C26 getUserAllocation aggregates the wallet's awarded entries: for every
\* launch and wallet the totalTokens returned is the sum of allocatedTokens
\* over all entries of the wallet, in all pools of the launch, whose status
\* is filled or won, also when the wallet has several entries in one pool;
\* pending and lost entries add nothing.
UserAllocationAggregates ==
    \A l \in DOMAIN launches, w \in Wallets :
        getUserAllocation(launches, l, w).totalTokens
            = SumSeq([n \in DOMAIN AllocationPool |->
                        awardedInPool(launches[l].pools[AllocationPool[n]], w)])

\* C27 A launch is created once and never deleted: once initializeLaunch has
\* stored a launch, no later operation, a second initializeLaunch with the
\* same id included, removes the launch, removes entries of its pools, takes
\* a pool's status back to 'pending' or lowers a pool's allocated counter.
LaunchCreatedOnce ==
    [][\A l \in DOMAIN launches :
            /\ l \in DOMAIN launches'
            /\ \A p \in Pools :
                LET before == launches[l].pools[p]
                    after == launches'[l].pools[p]
                IN  /\ Len(after.participants) >= Len(before.participants)
                    /\ \A i \in DOMAIN before.participants :
                        after.participants[i].wallet = before.participants[i].wallet
                    /\ after.allocated >= before.allocated
                    /\ before.status # "pending" => after.status # "pending"]_vars

\* C28 executeAllPools distributes every participant pool: whatever
\* executeAllPools(launchId) leaves of an initialized launch, each of the
\* pools guaranteed, weighted_lottery, public_lottery, flipper and fcfs has
\* status 'distributed', with or without participants and whatever its status
\* was before the call.
AllPoolsDistributed ==
    \A l \in DOMAIN launches :
        \A after \in executeAllPools(launches[l],
                                     IF l \in DOMAIN requests THEN requests[l] ELSE <<>>,
                                     now) :
            \A p \in ParticipantPools : after.pools[p].status = "distributed"

\* C30 submitRequest is atomic with respect to closePool: submitRequest has no
\* point at which it gives up control, so in every interleaving of
\* submitRequest and closePool calls its check of the pool's status and its
\* append are one step; no entry is appended to a pool that closePool has
\* closed and no later openPool has opened: every step that appends an entry
\* to a pool starts with the pool 'open'.
NoAppendAfterClose ==
    [][\A l \in DOMAIN launches, p \in Pools :
            ( /\ l \in DOMAIN launches'
              /\ Len(launches'[l].pools[p].participants)
                    > Len(launches[l].pools[p].participants) )
            => launches[l].pools[p].status = "open"]_vars

\* C30: closePool has completed on a pool that holds an accepted entry, and
\* the launch can take another request, which no wallet gets into the pool
SubmitMeetsClosedPool ==
    \E l \in DOMAIN launches, p \in Pools :
        /\ launches[l].pools[p].status = "closed"
        /\ Len(launches[l].pools[p].participants) = 1
        /\ Len(requests[l]) = 1
        /\ \A w \in Wallets, a \in RequestAmounts :
            submitRequest(stakers, launches, requests, w, l, p, a).launches = launches

(***************************************************************************)
(* Properties of stake and unstake (SpecLedger).                           *)
(***************************************************************************)
\* allocationWeight * (0.5 + (shs / 100) * 1.5), in 1/800
weightOfTier(tier, shs) == TIER_CONFIG[tier].allocationWeight4 * (100 + 3 * shs)

\* C31 Stake onto an existing position: stake(wallet, amount, lockDays) for a
\* wallet that has a position sets stakedAmount to old + amount, the lock-end
\* to max(old lock-end, now + lockDays), the tier to getTierForStake(old +
\* amount, lockDays) with the lockDays of this call, and effectiveWeight to
\* the weight of the new tier and the unchanged SHS; a new position gets SHS
\* 50. 100,000 tokens for 180 days give diamond with weight 12.5.
StakeOntoPosition ==
    /\ \A w \in Wallets, amount \in LedgerStakeAmounts, lockDays \in LedgerLockDays :
        LET position == stakePosition(stakers, now, w, amount, lockDays)
            lockTo == now + lockDays * HoursPerDay
        IN  IF w \in DOMAIN stakers
            THEN /\ position.stakedAmount = stakers[w].stakedAmount + amount
                 /\ position.lockEndDate
                        = IF stakers[w].lockEndDate >= lockTo
                          THEN stakers[w].lockEndDate ELSE lockTo
                 /\ position.tier
                        = getTierForStake(stakers[w].stakedAmount + amount, lockDays)
                 /\ position.strongHolderScore = stakers[w].strongHolderScore
                 /\ position.effectiveWeight
                        = weightOfTier(position.tier, stakers[w].strongHolderScore)
            ELSE /\ position.stakedAmount = amount
                 /\ position.lockEndDate = lockTo
                 /\ position.tier = getTierForStake(amount, lockDays)
                 /\ position.strongHolderScore = 50
                 /\ position.effectiveWeight = weightOfTier(position.tier, 50)
    /\ \A w \in Wallets \ DOMAIN stakers :
        /\ stakePosition(stakers, now, w, 100000, 180).tier = "diamond"
        /\ stakePosition(stakers, now, w, 100000, 180).effectiveWeight * 10 = 125 * 800

\* C31: a position of 50,000 tokens under a lock that has 75 days to run is
\* public, as a stake with lockDays 0 onto a locked position leaves it; its
\* score was updated before and is kept
ToppedUpWithoutLock ==
    \E w \in DOMAIN stakers :
        /\ stakers[w].stakedAmount = 50000
        /\ stakers[w].lockEndDate = now + 75 * HoursPerDay
        /\ stakers[w].tier = "public"
        /\ stakers[w].strongHolderScore = 100

\* C32 Unstake outcome: a successful unstake that brings the balance to zero
\* deletes the position and returns newPosition null; otherwise the position
\* stays, with tier = getTierForStake(remaining balance, max(0, whole days
\* from now until the lock-end)) and its weight recomputed from that tier and
\* the unchanged SHS.
UnstakeOutcome ==
    \A w \in DOMAIN stakers, x \in LedgerUnstakeAmounts, early \in BOOLEAN :
        LET result == unstake(stakers, now, w, x, early)
            daysLeft == IF stakers[w].lockEndDate > now
                        THEN (stakers[w].lockEndDate - now) \div HoursPerDay
                        ELSE 0
        IN  (result.ret.outcome = "returned" /\ result.ret.success)
            => IF x = stakers[w].stakedAmount
               THEN /\ w \notin DOMAIN result.stakers
                    /\ newPositionOf(result, w) = "null"
               ELSE /\ w \in DOMAIN result.stakers
                    /\ newPositionOf(result, w) = result.stakers[w]
                    /\ result.stakers[w].stakedAmount = stakers[w].stakedAmount - x
                    /\ result.stakers[w].stakedAmount > 0
                    /\ result.stakers[w].tier
                        = getTierForStake(stakers[w].stakedAmount - x, daysLeft)
                    /\ result.stakers[w].strongHolderScore = stakers[w].strongHolderScore
                    /\ result.stakers[w].effectiveWeight
                        = weightOfTier(result.stakers[w].tier,
                                       stakers[w].strongHolderScore)

\* C32: 30,000 tokens are left of a position and the tier is bronze, as an
\* unstake made with 45 days of the lock left has set it
BronzeByRemainingLock ==
    \E w \in DOMAIN stakers :
        /\ stakers[w].stakedAmount = 30000
        /\ stakers[w].lockEndDate = now + 45 * HoursPerDay
        /\ stakers[w].tier = "bronze"

(***************************************************************************)
(* Properties of the entries and the staking ledger (SpecSnapshot).        *)
(***************************************************************************)
\* C33 Entries are snapshots: the entry submitRequest appends has the weight
\* the wallet's position has at that time, 0.25 if the wallet has no position,
\* and lotteryTickets = floor(clamped amountUSD * the wallet's lottery boost at
\* that time); every later stake, unstake or updateSHS leaves the entries as
\* they are.
EntriesAreSnapshots ==
    [][/\ \A l \in DOMAIN launches, p \in Pools :
            ( /\ l \in DOMAIN launches'
              /\ Len(launches'[l].pools[p].participants)
                    = Len(launches[l].pools[p].participants) + 1 )
            => LET entry == launches'[l].pools[p].participants[
                                Len(launches'[l].pools[p].participants)]
                   w == entry.wallet
               IN  /\ entry.requestedAmount <= POOL_CONFIG[p].maxPerWallet
                   /\ entry.weight = IF w \in DOMAIN stakers
                                     THEN stakers[w].effectiveWeight
                                     ELSE 200
                   /\ entry.lotteryTickets
                        = IF w \in DOMAIN stakers
                          THEN (entry.requestedAmount
                                * TIER_CONFIG[stakers[w].tier].lotteryBoost2
                                * (100 + 3 * stakers[w].strongHolderScore)) \div 400
                          ELSE (entry.requestedAmount
                                * TIER_CONFIG.public.lotteryBoost2) \div 2
       /\ stakers' # stakers => launches' = launches]_vars

\* C33: a wallet holds an entry whose weight is the gold weight at score 50,
\* taken when it was submitted, and has no position any more, and another
\* holds one taken at score 50 and has the score 100 now
SnapshotOutlivesPosition ==
    \E l \in DOMAIN launches, p \in Pools :
        \E i, j \in DOMAIN launches[l].pools[p].participants :
            LET mine == launches[l].pools[p].participants[i]
                other == launches[l].pools[p].participants[j]
            IN  /\ mine.weight = 20 * 250
                /\ mine.wallet \notin DOMAIN stakers
                /\ other.wallet \in DOMAIN stakers
                /\ other.weight = 20 * 250
                /\ stakers[other.wallet].strongHolderScore = 100
                /\ stakers[other.wallet].effectiveWeight = 20 * 400

(***************************************************************************)
(* Properties of the lottery draw (SpecLottery).                           *)
(***************************************************************************)
\* the tickets the entries of a wallet put into the ticket pool
ticketsOf(participants, wallet) ==
    SumSeq([i \in DOMAIN participants |->
                IF /\ participants[i].wallet = wallet
                   /\ participants[i].lotteryTickets > 0
                THEN participants[i].lotteryTickets
                ELSE 0])

\* the wallet has an entry of status 'won'
hasWon(participants, wallet) ==
    \E i \in DOMAIN participants :
        /\ participants[i].wallet = wallet
        /\ participants[i].status = "won"

\* C34 Lottery outcome: after executeLotteryPool on a pool with participants no
\* entry of the pool is 'pending'; whatever the shuffle, a wallet that holds at
\* least one ticket ends without a 'won' entry only if the pool's remaining
\* tokens reached 0; a wallet with no ticket has no 'won' entry.
LotteryOutcome ==
    \A l \in DOMAIN launches, p \in SnapshotPools :
        Len(launches[l].pools[p].participants) > 0 =>
            \A after \in executeLotteryPool(launches[l], p, now) :
                LET before == launches[l].pools[p].participants
                    parts == after.pools[p].participants
                IN  /\ \A i \in DOMAIN parts : parts[i].status # "pending"
                    /\ \A w \in Wallets :
                        /\ ( /\ ticketsOf(before, w) >= 1
                             /\ ~hasWon(parts, w) )
                           => after.pools[p].remaining = 0
                        /\ ticketsOf(before, w) = 0 => ~hasWon(parts, w)

\* C34: a drawn pool with no tokens remaining in which a wallet that held a
\* ticket has lost
LostToEmptyPool ==
    \E l \in DOMAIN launches, p \in SnapshotPools :
        LET parts == launches[l].pools[p].participants
        IN  /\ launches[l].pools[p].status = "distributed"
            /\ launches[l].pools[p].remaining = 0
            /\ \E w \in Wallets :
                /\ ticketsOf(parts, w) >= 1
                /\ ~hasWon(parts, w)
                /\ \E i \in DOMAIN parts : parts[i].wallet = w /\ parts[i].status = "lost"

(***************************************************************************)
(* Properties of the pools' counters and entries (Spec, SpecFcfs).         *)
(***************************************************************************)
\* C35 Counter balance: in every reachable state, also after distribution has
\* run more than once, every pool of every launch has
\* allocated + remaining = totalTokens and remaining >= 0.
CounterBalance ==
    \A l \in DOMAIN launches : \A p \in Pools :
        /\ launches[l].pools[p].allocated + launches[l].pools[p].remaining
                = launches[l].pools[p].totalTokens
        /\ launches[l].pools[p].remaining >= 0

\* the sum of allocatedTokens over the entries
entriesTotal(participants) ==
    SumSeq([i \in DOMAIN participants |-> participants[i].allocatedTokens])

\* C36 Pool counter matches the entries: when one distribution call has run on
\* a launch, every pool it distributed has allocated = the sum of
\* allocatedTokens over the pool's entries, also when a wallet has several
\* requests in the pool.
CounterMatchesEntries ==
    \A l \in DOMAIN launches : \A p \in Pools :
        ( /\ executions[l] = 1
          /\ launches[l].pools[p].status = "distributed" )
        => launches[l].pools[p].allocated
                = entriesTotal(launches[l].pools[p].participants)

\* C37 Distributed pools have no pending entry: in every reachable state a pool
\* whose status is 'distributed' holds no entry of status 'pending'.
DistributedHasNoPending ==
    \A l \in DOMAIN launches : \A p \in Pools :
        launches[l].pools[p].status = "distributed" =>
            \A i \in DOMAIN launches[l].pools[p].participants :
                launches[l].pools[p].participants[i].status # "pending"

\* C37: a distributed pool that holds a lost entry beside a filled or won one
DistributedWithLostEntry ==
    \E l \in DOMAIN launches : \E p \in Pools :
        /\ launches[l].pools[p].status = "distributed"
        /\ \E i, j \in DOMAIN launches[l].pools[p].participants :
            /\ launches[l].pools[p].participants[i].status = "lost"
            /\ launches[l].pools[p].participants[j].status \in {"filled", "won"}

\* C38 No entry exceeds its request: every entry of every pool has
\* allocatedTokens <= floor(requestedAmount / tokenPrice).
WithinRequest ==
    \A l \in DOMAIN launches : \A p \in Pools :
        \A i \in DOMAIN launches[l].pools[p].participants :
            launches[l].pools[p].participants[i].allocatedTokens
                <= tokensFor(launches[l].pools[p].participants[i].requestedAmount,
                             launches[l].tokenPrice)

(***************************************************************************)
(* Properties of the counted staking ledger (SpecCounted).                 *)
(***************************************************************************)
\* C39 Staking ledger balance: after any sequence of stake calls with positive
\* amounts and of unstake calls that return or throw, a wallet has a position
\* exactly when the sum of its staked amounts less the sum of its unstaked
\* amounts is positive, the position's stakedAmount is that difference, no
\* stored position has stakedAmount <= 0, and stake calls for one wallet issued
\* together all take effect.
LedgerBalance ==
    \A w \in Wallets :
        /\ w \in DOMAIN stakers <=> probe.staked[w] - probe.unstaked[w] > 0
        /\ w \in DOMAIN stakers =>
            /\ stakers[w].stakedAmount = probe.staked[w] - probe.unstaked[w]
            /\ stakers[w].stakedAmount > 0

\* C39: a wallet that staked 20,000 and 30,000 and took 20,000 back holds
\* 30,000, and a wallet that staked twice and took all of it back has no
\* position
TwoStakesOneUnstake ==
    /\ probe.staked["w1"] = 50000
    /\ probe.unstaked["w1"] = 20000
    /\ "w1" \in DOMAIN stakers
    /\ stakers["w1"].stakedAmount = 30000
    /\ probe.staked["w2"] = 60000
    /\ probe.unstaked["w2"] = 60000
    /\ "w2" \notin DOMAIN stakers

(***************************************************************************)
(* Properties of the guaranteed pool and the staking ledger (Spec).        *)
(***************************************************************************)
\* C40 Guaranteed awards go to current gold or diamond stakers: every entry
\* that executeGuaranteedPool marks filled with allocatedTokens > 0 belongs to
\* a wallet that has, when the pool is distributed, a position of tier gold or
\* diamond, also when the wallet unstaked or changed tier after its request.
GuaranteedGoesToStakers ==
    [][\A l \in DOMAIN launches :
        ( /\ DistributionStep(l)
          /\ launches'[l].pools.guaranteed # launches[l].pools.guaranteed )
        => \A i \in DOMAIN launches'[l].pools.guaranteed.participants :
            LET entry == launches'[l].pools.guaranteed.participants[i]
            IN  ( /\ entry.status = "filled"
                  /\ entry.allocatedTokens > 0 )
                => /\ entry.wallet \in DOMAIN stakers
                   /\ stakers[entry.wallet].tier \in {"gold", "diamond"}]_vars

====
